---- MODULE Spec2Model ----
(***************************************************************************)
(* Model of the secure SQLite module (src/unnamed/part_003): identifier    *)
(* validation, the singleton connection and its lifecycle, the             *)
(* parameterized statement builders and the transaction wrapper; and of    *)
(* the subscription store (src/unnamed/part_004) and the auth store        *)
(* (src/src/stores/authStore.ts) with the services they call.              *)
(*                                                                         *)
(* A JavaScript string is modelled as a sequence of one-character strings, *)
(* so that the regular expression and toLowerCase are computed character   *)
(* by character.                                                           *)
(***************************************************************************)
EXTENDS Integers, Sequences, FiniteSets, TLC

VARIABLES
    idName,      \* SpecIdent: the string handed to validateIdentifier
    idOutcome,   \* SpecIdent: per kind, the outcome of validateIdentifier(idName, kind)
    dbInstance,  \* the module-level handle, NULL or a handle
    tables,      \* the store: the rows of each table
    opened,      \* how many handles openDatabaseAsync has produced
    closed,      \* the handles closeAsync has closed
    inTx,        \* the connection has an open transaction
    snapshot,    \* the tables when that transaction began
    tasks,       \* per caller: the asynchronous operation it is in, and where
    ops,         \* how many operations the callers have started
    window,      \* since the last closeDatabase call: how many times the database
                 \* was opened, and the handles initDatabase resolved with;
                 \* ready: the handles whose pragma has completed
    outside,     \* the rows written outside any transaction callback
    log,         \* SpecSeq: the calls made so far, each with what it settled with
    pc,          \* SpecBuild: "ready" before the call, "done" after it
    call,        \* the last operation called, with its arguments
    before,      \* the store when that call started
    issued,      \* the statements that call handed to the store, in order
    result,      \* what that call settled with: a value or an error
    twin,        \* the statements the same call issues with every data value replaced
    sub,         \* the state of the subscription store
    rc,          \* the RevenueCat service: its isInitialized flag, the calls of
                 \* Purchases.configure and the customer-info listeners registered
    auth,        \* the state of the auth store
    supa         \* the Supabase service: whether it is configured, the app-state
                 \* subscription of setupAutoRefresh, the calls of setupAutoRefresh
                 \* and the auth-state-change listeners registered

identVars == <<idName, idOutcome>>
callVars == <<call, before, issued, result, twin>>
storeVars == <<tables, inTx, snapshot>>
taskVars == <<opened, closed, tasks, ops, window, outside, log>>
buildVars == <<dbInstance, tables, pc, call, before, issued, result, twin>>
appVars == <<sub, rc, auth, supa>>
vars == <<idName, idOutcome, dbInstance, tables, opened, closed, inTx, snapshot, tasks, ops,
          window, outside, log, pc, call, before, issued, result, twin, sub, rc, auth, supa>>

\* dbInstance is null or a handle; the handles are 1, 2, ... in the order in
\* which openDatabaseAsync produced them.
NULL == 0

----------------------------------------------------------------------------
(* Characters *)

LowerLetters ==
    <<"a","b","c","d","e","f","g","h","i","j","k","l","m",
      "n","o","p","q","r","s","t","u","v","w","x","y","z">>

UpperLetters ==
    <<"A","B","C","D","E","F","G","H","I","J","K","L","M",
      "N","O","P","Q","R","S","T","U","V","W","X","Y","Z">>

DigitChars == {"0","1","2","3","4","5","6","7","8","9"}

Range(s) == { s[i] : i \in DOMAIN s }

\* [a-zA-Z_]
IdentStartChars == Range(LowerLetters) \cup Range(UpperLetters) \cup {"_"}
IsIdentStart(c) == c \in IdentStartChars

\* [a-zA-Z0-9_]
IsIdentPart(c) == IsIdentStart(c) \/ c \in DigitChars

\* String.prototype.toLowerCase on one (ASCII) character
LowerChar(c) ==
    IF \E i \in DOMAIN UpperLetters : UpperLetters[i] = c
    THEN LowerLetters[CHOOSE i \in DOMAIN UpperLetters : UpperLetters[i] = c]
    ELSE c

toLowerCase(s) == [i \in DOMAIN s |-> LowerChar(s[i])]

----------------------------------------------------------------------------
(* validateIdentifier *)

\* The regular expression is matched left to right: position i of s against
\* [a-zA-Z0-9_]* followed by the end of the input.
RECURSIVE MatchRest(_, _)
MatchRest(s, i) ==
    IF i > Len(s) THEN TRUE
    ELSE IF IsIdentPart(s[i]) THEN MatchRest(s, i + 1)
    ELSE FALSE

\* VALID_IDENTIFIER.test(name)
VALID_IDENTIFIER(s) ==
    IF Len(s) = 0 THEN FALSE
    ELSE IF IsIdentStart(s[1]) THEN MatchRest(s, 2)
    ELSE FALSE

RESERVED_WORDS ==
    { <<"s","e","l","e","c","t">>, <<"i","n","s","e","r","t">>,
      <<"u","p","d","a","t","e">>, <<"d","e","l","e","t","e">>,
      <<"d","r","o","p">>,         <<"c","r","e","a","t","e">>,
      <<"a","l","t","e","r">>,     <<"t","a","b","l","e">>,
      <<"i","n","d","e","x">>,     <<"w","h","e","r","e">>,
      <<"f","r","o","m">>,         <<"j","o","i","n">>,
      <<"a","n","d">>,             <<"o","r">> }

Ok == [status |-> "ok"]
NotCalled == [status |-> "none"]
Err(why, kind, name) == [status |-> "error", error |-> why, kind |-> kind, name |-> name]

\* Mutant: the reserved-word lookup without toLowerCase.
validateIdentifier_CaseSensitive(name, kind) ==
    IF ~VALID_IDENTIFIER(name) THEN Err("InvalidName", kind, name)
    ELSE IF name \in RESERVED_WORDS THEN Err("ReservedKeyword", kind, name)
    ELSE Ok

\* The outcome of validateIdentifier(name, type): Ok, or the Error thrown.
validateIdentifier(name, kind) ==
    IF ~VALID_IDENTIFIER(name) THEN Err("InvalidName", kind, name)
    ELSE IF toLowerCase(name) \in RESERVED_WORDS THEN Err("ReservedKeyword", kind, name)
    ELSE Ok

IsOk(r) == r.status = "ok"

----------------------------------------------------------------------------
(* Input names *)

MaxNameLen == 3

\* The characters the enumerated strings are made of: enough for "or"/"and" in
\* every spelling, a digit, the underscore and two SQL metacharacters.
Sigma == {"a", "n", "d", "D", "o", "O", "r", "_", "1", ";", " "}

RECURSIVE StringsUpTo(_)
StringsUpTo(n) ==
    IF n = 0 THEN { <<>> }
    ELSE LET shorter == StringsUpTo(n - 1)
         IN  shorter \cup { Append(s, c) : s \in { t \in shorter : Len(t) = n - 1 }, c \in Sigma }

N_users  == <<"u","s","e","r","s">>
N_name   == <<"n","a","m","e">>
N_age    == <<"a","g","e">>
N_id     == <<"i","d">>
N_1bad   == <<"1","b","a","d">>
N_select == <<"s","e","l","e","c","t">>
N_DROP   == <<"D","R","O","P">>
N_Drop   == <<"D","r","o","p">>
N_quote  == <<"a","\"",";">>
N_empty  == <<>>
N_Table1 == <<"T","a","b","l","e","_","1">>

NamedStrings == { N_users, N_name, N_age, N_id, N_1bad, N_select, N_DROP, N_Drop,
                  N_quote, N_empty, N_Table1 } \cup RESERVED_WORDS

IdentInputs == StringsUpTo(MaxNameLen) \cup NamedStrings

Kinds == {"table", "column"}

----------------------------------------------------------------------------
(* Values, objects and statement text *)

\* Data values: numbers, strings, booleans, null and undefined.
IntV(n)   == [t |-> "int", v |-> n]
TextV(s)  == [t |-> "text", v |-> s]
BoolV(b)  == [t |-> "bool", v |-> b]
NullV     == [t |-> "null"]
\* an identifier handed over as a bound value
NameV(n)  == [t |-> "name", v |-> n]
Undefined == [t |-> "undefined"]

\* A record or condition set is a JavaScript object: the list of its own
\* properties [k |-> key, v |-> value] in property order (for keys that are not
\* array indices, the order in which they were added), with distinct keys.
ObjectKeys(o)   == [i \in DOMAIN o |-> o[i].k]
ObjectValues(o) == [i \in DOMAIN o |-> o[i].v]

\* A statement text is a sequence of tokens: fixed fragments of the template
\* and identifiers wrapped in double quotes.
K(text) == [kw |-> text]
Q(name) == [quoted |-> name]

\* Array.prototype.join over parts that are token sequences
RECURSIVE Join(_, _)
Join(parts, sep) ==
    IF Len(parts) = 0 THEN <<>>
    ELSE IF Len(parts) = 1 THEN parts[1]
    ELSE parts[1] \o <<sep>> \o Join(Tail(parts), sep)

\* Mutant: only the first column is validated.
validateEach_FirstOnly(columns, i) ==
    IF Len(columns) = 0 THEN Ok ELSE validateIdentifier(columns[1], "column")

\* columns.forEach(col => validateIdentifier(col, 'column')): the first failure is thrown
RECURSIVE validateEach(_, _)
validateEach(columns, i) ==
    IF i > Len(columns) THEN Ok
    ELSE LET r == validateIdentifier(columns[i], "column")
         IN  IF IsOk(r) THEN validateEach(columns, i + 1) ELSE r

NotInitialized == [status |-> "error", error |-> "NotInitialized"]

\* The call of a store method: which method, the statement text, the bound
\* values, and what the operation returns from the store's answer.
Issue(api, sql, params, then) ==
    [status |-> "issue", api |-> api, sql |-> sql, params |-> params, then |-> then]

\* columns.map(col => `"${col}" = ?`).join(sep)
Assignments(columns, sep) ==
    Join([i \in DOMAIN columns |-> <<Q(columns[i]), K(" = ?")>>], K(sep))

----------------------------------------------------------------------------
(* The operations, up to the call of the store method.  db is dbInstance.  *)

\* Mutant: the values are bound in reverse order.
insert_ReversedValues(db, table, data) ==
    LET columns == ObjectKeys(data)
        n == Len(columns)
        values == [i \in 1..n |-> ObjectValues(data)[n + 1 - i]]
        placeholders == Join([i \in DOMAIN columns |-> <<K("?")>>], K(", "))
        columnList == Join([i \in DOMAIN columns |-> <<Q(columns[i])>>], K(", "))
        sql == <<K("INSERT INTO "), Q(table), K(" (")>> \o columnList
                  \o <<K(") VALUES (")>> \o placeholders \o <<K(")")>>
    IN  IF ~IsOk(validateIdentifier(table, "table")) THEN validateIdentifier(table, "table")
        ELSE IF db = NULL THEN NotInitialized
        ELSE IF ~IsOk(validateEach(columns, 1)) THEN validateEach(columns, 1)
        ELSE Issue("runAsync", sql, values, "lastInsertRowId")

\* Mutant: the values are written into the statement text instead of being bound.
insert_Interpolated(db, table, data) ==
    LET columns == ObjectKeys(data)
        values == ObjectValues(data)
        literals == Join([i \in DOMAIN columns |-> <<[literal |-> values[i]]>>], K(", "))
        columnList == Join([i \in DOMAIN columns |-> <<Q(columns[i])>>], K(", "))
        sql == <<K("INSERT INTO "), Q(table), K(" (")>> \o columnList
                  \o <<K(") VALUES (")>> \o literals \o <<K(")")>>
    IN  IF ~IsOk(validateIdentifier(table, "table")) THEN validateIdentifier(table, "table")
        ELSE IF db = NULL THEN NotInitialized
        ELSE IF ~IsOk(validateEach(columns, 1)) THEN validateEach(columns, 1)
        ELSE Issue("runAsync", sql, <<>>, "lastInsertRowId")

\* Mutant: insert returns result.changes.
insert_ReturnsChanges(db, table, data) ==
    LET columns == ObjectKeys(data)
        values == ObjectValues(data)
        placeholders == Join([i \in DOMAIN columns |-> <<K("?")>>], K(", "))
        columnList == Join([i \in DOMAIN columns |-> <<Q(columns[i])>>], K(", "))
        sql == <<K("INSERT INTO "), Q(table), K(" (")>> \o columnList
                  \o <<K(") VALUES (")>> \o placeholders \o <<K(")")>>
    IN  IF ~IsOk(validateIdentifier(table, "table")) THEN validateIdentifier(table, "table")
        ELSE IF db = NULL THEN NotInitialized
        ELSE IF ~IsOk(validateEach(columns, 1)) THEN validateEach(columns, 1)
        ELSE Issue("runAsync", sql, values, "changes")

insert(db, table, data) ==
    LET columns == ObjectKeys(data)
        values == ObjectValues(data)
        placeholders == Join([i \in DOMAIN columns |-> <<K("?")>>], K(", "))
        columnList == Join([i \in DOMAIN columns |-> <<Q(columns[i])>>], K(", "))
        sql == <<K("INSERT INTO "), Q(table), K(" (")>> \o columnList
                  \o <<K(") VALUES (")>> \o placeholders \o <<K(")")>>
    IN  IF ~IsOk(validateIdentifier(table, "table")) THEN validateIdentifier(table, "table")
        ELSE IF db = NULL THEN NotInitialized
        ELSE IF ~IsOk(validateEach(columns, 1)) THEN validateEach(columns, 1)
        ELSE Issue("runAsync", sql, values, "lastInsertRowId")

\* Mutant: updateById with no column returns 0 without a statement.
updateById_EmptyIsNoChange(db, table, id, data) ==
    LET columns == ObjectKeys(data)
        values == ObjectValues(data)
        setClause == Assignments(columns, ", ")
        sql == <<K("UPDATE "), Q(table), K(" SET ")>> \o setClause
                  \o <<K(" WHERE "), Q(<<"i","d">>), K(" = ?")>>
    IN  IF ~IsOk(validateIdentifier(table, "table")) THEN validateIdentifier(table, "table")
        ELSE IF db = NULL THEN NotInitialized
        ELSE IF ~IsOk(validateEach(columns, 1)) THEN validateEach(columns, 1)
        ELSE IF Len(columns) = 0 THEN [status |-> "ok", value |-> IntV(0)]
        ELSE Issue("runAsync", sql, values \o <<id>>, "changes")

updateById(db, table, id, data) ==
    LET columns == ObjectKeys(data)
        values == ObjectValues(data)
        setClause == Assignments(columns, ", ")
        sql == <<K("UPDATE "), Q(table), K(" SET ")>> \o setClause
                  \o <<K(" WHERE "), Q(<<"i","d">>), K(" = ?")>>
    IN  IF ~IsOk(validateIdentifier(table, "table")) THEN validateIdentifier(table, "table")
        ELSE IF db = NULL THEN NotInitialized
        ELSE IF ~IsOk(validateEach(columns, 1)) THEN validateEach(columns, 1)
        ELSE Issue("runAsync", sql, values \o <<id>>, "changes")

\* Mutant: the where-value is bound before the update-set values.
updateWhere_WhereFirst(db, table, data, whereColumn, whereValue) ==
    LET columns == ObjectKeys(data)
        values == ObjectValues(data)
        setClause == Assignments(columns, ", ")
        sql == <<K("UPDATE "), Q(table), K(" SET ")>> \o setClause
                  \o <<K(" WHERE "), Q(whereColumn), K(" = ?")>>
    IN  IF ~IsOk(validateIdentifier(table, "table")) THEN validateIdentifier(table, "table")
        ELSE IF ~IsOk(validateIdentifier(whereColumn, "column"))
             THEN validateIdentifier(whereColumn, "column")
        ELSE IF db = NULL THEN NotInitialized
        ELSE IF ~IsOk(validateEach(columns, 1)) THEN validateEach(columns, 1)
        ELSE Issue("runAsync", sql, <<whereValue>> \o values, "changes")

updateWhere(db, table, data, whereColumn, whereValue) ==
    LET columns == ObjectKeys(data)
        values == ObjectValues(data)
        setClause == Assignments(columns, ", ")
        sql == <<K("UPDATE "), Q(table), K(" SET ")>> \o setClause
                  \o <<K(" WHERE "), Q(whereColumn), K(" = ?")>>
    IN  IF ~IsOk(validateIdentifier(table, "table")) THEN validateIdentifier(table, "table")
        ELSE IF ~IsOk(validateIdentifier(whereColumn, "column"))
             THEN validateIdentifier(whereColumn, "column")
        ELSE IF db = NULL THEN NotInitialized
        ELSE IF ~IsOk(validateEach(columns, 1)) THEN validateEach(columns, 1)
        ELSE Issue("runAsync", sql, values \o <<whereValue>>, "changes")

\* Mutant: updateWhereAnd leaves the WHERE clause out when there is no
\* condition.
updateWhereAnd_NoEmptyWhere(db, table, data, conditions) ==
    LET columns == ObjectKeys(data)
        conditionColumns == ObjectKeys(conditions)
        values == ObjectValues(data)
        conditionValues == ObjectValues(conditions)
        setClause == Assignments(columns, ", ")
        whereClause == Assignments(conditionColumns, " AND ")
        sql == <<K("UPDATE "), Q(table), K(" SET ")>> \o setClause
                  \o (IF Len(conditionColumns) = 0 THEN <<>> ELSE <<K(" WHERE ")>> \o whereClause)
    IN  IF ~IsOk(validateIdentifier(table, "table")) THEN validateIdentifier(table, "table")
        ELSE IF db = NULL THEN NotInitialized
        ELSE IF ~IsOk(validateEach(columns, 1)) THEN validateEach(columns, 1)
        ELSE IF ~IsOk(validateEach(conditionColumns, 1)) THEN validateEach(conditionColumns, 1)
        ELSE Issue("runAsync", sql, values \o conditionValues, "changes")

updateWhereAnd(db, table, data, conditions) ==
    LET columns == ObjectKeys(data)
        conditionColumns == ObjectKeys(conditions)
        values == ObjectValues(data)
        conditionValues == ObjectValues(conditions)
        setClause == Assignments(columns, ", ")
        whereClause == Assignments(conditionColumns, " AND ")
        sql == <<K("UPDATE "), Q(table), K(" SET ")>> \o setClause
                  \o <<K(" WHERE ")>> \o whereClause
    IN  IF ~IsOk(validateIdentifier(table, "table")) THEN validateIdentifier(table, "table")
        ELSE IF db = NULL THEN NotInitialized
        ELSE IF ~IsOk(validateEach(columns, 1)) THEN validateEach(columns, 1)
        ELSE IF ~IsOk(validateEach(conditionColumns, 1)) THEN validateEach(conditionColumns, 1)
        ELSE Issue("runAsync", sql, values \o conditionValues, "changes")

\* Mutant: deleteById returns result.lastInsertRowId.
deleteById_ReturnsRowId(db, table, id) ==
    LET sql == <<K("DELETE FROM "), Q(table), K(" WHERE "), Q(<<"i","d">>), K(" = ?")>>
    IN  IF ~IsOk(validateIdentifier(table, "table")) THEN validateIdentifier(table, "table")
        ELSE IF db = NULL THEN NotInitialized
        ELSE Issue("runAsync", sql, <<id>>, "lastInsertRowId")

deleteById(db, table, id) ==
    LET sql == <<K("DELETE FROM "), Q(table), K(" WHERE "), Q(<<"i","d">>), K(" = ?")>>
    IN  IF ~IsOk(validateIdentifier(table, "table")) THEN validateIdentifier(table, "table")
        ELSE IF db = NULL THEN NotInitialized
        ELSE Issue("runAsync", sql, <<id>>, "changes")

\* Mutant: deleteWhere puts the column into the text without quotes.
deleteWhere_Unquoted(db, table, whereColumn, whereValue) ==
    LET sql == <<K("DELETE FROM "), Q(table), K(" WHERE "), [bare |-> whereColumn], K(" = ?")>>
    IN  IF ~IsOk(validateIdentifier(table, "table")) THEN validateIdentifier(table, "table")
        ELSE IF ~IsOk(validateIdentifier(whereColumn, "column"))
             THEN validateIdentifier(whereColumn, "column")
        ELSE IF db = NULL THEN NotInitialized
        ELSE Issue("runAsync", sql, <<whereValue>>, "changes")

deleteWhere(db, table, whereColumn, whereValue) ==
    LET sql == <<K("DELETE FROM "), Q(table), K(" WHERE "), Q(whereColumn), K(" = ?")>>
    IN  IF ~IsOk(validateIdentifier(table, "table")) THEN validateIdentifier(table, "table")
        ELSE IF ~IsOk(validateIdentifier(whereColumn, "column"))
             THEN validateIdentifier(whereColumn, "column")
        ELSE IF db = NULL THEN NotInitialized
        ELSE Issue("runAsync", sql, <<whereValue>>, "changes")

\* Mutant: deleteWhereAnd selects by its first condition alone.
deleteWhereAnd_FirstCondition(db, table, conditions) ==
    LET conditionColumns == ObjectKeys(conditions)
        conditionValues == ObjectValues(conditions)
        first(s) == IF Len(s) = 0 THEN s ELSE <<s[1]>>
        whereClause == Assignments(first(conditionColumns), " AND ")
        sql == <<K("DELETE FROM "), Q(table), K(" WHERE ")>> \o whereClause
    IN  IF ~IsOk(validateIdentifier(table, "table")) THEN validateIdentifier(table, "table")
        ELSE IF db = NULL THEN NotInitialized
        ELSE IF ~IsOk(validateEach(conditionColumns, 1)) THEN validateEach(conditionColumns, 1)
        ELSE Issue("runAsync", sql, first(conditionValues), "changes")

deleteWhereAnd(db, table, conditions) ==
    LET conditionColumns == ObjectKeys(conditions)
        conditionValues == ObjectValues(conditions)
        whereClause == Assignments(conditionColumns, " AND ")
        sql == <<K("DELETE FROM "), Q(table), K(" WHERE ")>> \o whereClause
    IN  IF ~IsOk(validateIdentifier(table, "table")) THEN validateIdentifier(table, "table")
        ELSE IF db = NULL THEN NotInitialized
        ELSE IF ~IsOk(validateEach(conditionColumns, 1)) THEN validateEach(conditionColumns, 1)
        ELSE Issue("runAsync", sql, conditionValues, "changes")

\* Mutant: findById without the predicate on id.
findById_NoPredicate(db, table, id) ==
    IF ~IsOk(validateIdentifier(table, "table")) THEN validateIdentifier(table, "table")
    ELSE IF db = NULL THEN NotInitialized
    ELSE Issue("getFirstAsync", <<K("SELECT * FROM "), Q(table), K(" LIMIT 1")>>, <<>>,
               "firstOrNull")

findById(db, table, id) ==
    LET sql == <<K("SELECT * FROM "), Q(table), K(" WHERE "), Q(<<"i","d">>), K(" = ?"),
                 K(" LIMIT 1")>>
    IN  IF ~IsOk(validateIdentifier(table, "table")) THEN validateIdentifier(table, "table")
        ELSE IF db = NULL THEN NotInitialized
        ELSE Issue("getFirstAsync", sql, <<id>>, "firstOrNull")

\* Mutant: findBy removes the rows it selects.
findBy_Removes(db, table, column, value) ==
    LET sql == <<K("DELETE FROM "), Q(table), K(" WHERE "), Q(column), K(" = ?")>>
    IN  IF ~IsOk(validateIdentifier(table, "table")) THEN validateIdentifier(table, "table")
        ELSE IF ~IsOk(validateIdentifier(column, "column"))
             THEN validateIdentifier(column, "column")
        ELSE IF db = NULL THEN NotInitialized
        ELSE Issue("runAsync", sql, <<value>>, "changes")

findBy(db, table, column, value) ==
    LET sql == <<K("SELECT * FROM "), Q(table), K(" WHERE "), Q(column), K(" = ?")>>
    IN  IF ~IsOk(validateIdentifier(table, "table")) THEN validateIdentifier(table, "table")
        ELSE IF ~IsOk(validateIdentifier(column, "column"))
             THEN validateIdentifier(column, "column")
        ELSE IF db = NULL THEN NotInitialized
        ELSE Issue("getAllAsync", sql, <<value>>, "rows")

\* Mutant: findOneBy returns every matching row.
findOneBy_AllRows(db, table, column, value) ==
    LET sql == <<K("SELECT * FROM "), Q(table), K(" WHERE "), Q(column), K(" = ?")>>
    IN  IF ~IsOk(validateIdentifier(table, "table")) THEN validateIdentifier(table, "table")
        ELSE IF ~IsOk(validateIdentifier(column, "column"))
             THEN validateIdentifier(column, "column")
        ELSE IF db = NULL THEN NotInitialized
        ELSE Issue("getAllAsync", sql, <<value>>, "rows")

findOneBy(db, table, column, value) ==
    LET sql == <<K("SELECT * FROM "), Q(table), K(" WHERE "), Q(column), K(" = ?"),
                 K(" LIMIT 1")>>
    IN  IF ~IsOk(validateIdentifier(table, "table")) THEN validateIdentifier(table, "table")
        ELSE IF ~IsOk(validateIdentifier(column, "column"))
             THEN validateIdentifier(column, "column")
        ELSE IF db = NULL THEN NotInitialized
        ELSE Issue("getFirstAsync", sql, <<value>>, "firstOrNull")

findWhereAnd(db, table, conditions) ==
    LET conditionColumns == ObjectKeys(conditions)
        conditionValues == ObjectValues(conditions)
        whereClause == Assignments(conditionColumns, " AND ")
        sql == <<K("SELECT * FROM "), Q(table), K(" WHERE ")>> \o whereClause
    IN  IF ~IsOk(validateIdentifier(table, "table")) THEN validateIdentifier(table, "table")
        ELSE IF db = NULL THEN NotInitialized
        ELSE IF ~IsOk(validateEach(conditionColumns, 1)) THEN validateEach(conditionColumns, 1)
        ELSE Issue("getAllAsync", sql, conditionValues, "rows")

\* limit and offset are numbers or Undefined
\* Mutant: OFFSET is applied whenever an offset is given.
findAll_OffsetAlone(db, table, limit, offset) ==
    LET base == <<K("SELECT * FROM "), Q(table)>>
        paged == IF limit # Undefined THEN base \o <<K(" LIMIT ?")>> ELSE base
        sql == IF offset # Undefined THEN paged \o <<K(" OFFSET ?")>> ELSE paged
        params == (IF limit # Undefined THEN <<limit>> ELSE <<>>)
                  \o (IF offset # Undefined THEN <<offset>> ELSE <<>>)
    IN  IF ~IsOk(validateIdentifier(table, "table")) THEN validateIdentifier(table, "table")
        ELSE IF db = NULL THEN NotInitialized
        ELSE Issue("getAllAsync", sql, params, "rows")

findAll(db, table, limit, offset) ==
    LET base == <<K("SELECT * FROM "), Q(table)>>
        sql == IF limit # Undefined
               THEN IF offset # Undefined
                    THEN base \o <<K(" LIMIT ?"), K(" OFFSET ?")>>
                    ELSE base \o <<K(" LIMIT ?")>>
               ELSE base
        params == IF limit # Undefined
                  THEN IF offset # Undefined THEN <<limit, offset>> ELSE <<limit>>
                  ELSE <<>>
    IN  IF ~IsOk(validateIdentifier(table, "table")) THEN validateIdentifier(table, "table")
        ELSE IF db = NULL THEN NotInitialized
        ELSE Issue("getAllAsync", sql, params, "rows")

\* An optional argument: left out, or given.
Absent   == [given |-> FALSE]
Given(x) == [given |-> TRUE, val |-> x]

\* Mutant: count never filters.
count_Unfiltered(db, table, whereColumn, whereValue) ==
    LET sql == <<K("SELECT COUNT(*) as count FROM "), Q(table)>>
    IN  IF ~IsOk(validateIdentifier(table, "table")) THEN validateIdentifier(table, "table")
        ELSE IF db = NULL THEN NotInitialized
        ELSE Issue("getFirstAsync", sql, <<>>, "count")

\* whereColumn is an optional string (truthy when given and not empty);
\* whereValue is a value or Undefined.
count(db, table, whereColumn, whereValue) ==
    LET filtered == (whereColumn.given /\ Len(whereColumn.val) > 0) /\ whereValue # Undefined
        sql == IF filtered
               THEN <<K("SELECT COUNT(*) as count FROM "), Q(table), K(" WHERE "),
                      Q(whereColumn.val), K(" = ?")>>
               ELSE <<K("SELECT COUNT(*) as count FROM "), Q(table)>>
        params == IF filtered THEN <<whereValue>> ELSE <<>>
    IN  IF ~IsOk(validateIdentifier(table, "table")) THEN validateIdentifier(table, "table")
        ELSE IF db = NULL THEN NotInitialized
        ELSE IF filtered /\ ~IsOk(validateIdentifier(whereColumn.val, "column"))
             THEN validateIdentifier(whereColumn.val, "column")
        ELSE Issue("getFirstAsync", sql, params, "count")

countWhereAnd(db, table, conditions) ==
    LET conditionColumns == ObjectKeys(conditions)
        conditionValues == ObjectValues(conditions)
        whereClause == Assignments(conditionColumns, " AND ")
        sql == <<K("SELECT COUNT(*) as count FROM "), Q(table), K(" WHERE ")>> \o whereClause
    IN  IF ~IsOk(validateIdentifier(table, "table")) THEN validateIdentifier(table, "table")
        ELSE IF db = NULL THEN NotInitialized
        ELSE IF ~IsOk(validateEach(conditionColumns, 1)) THEN validateEach(conditionColumns, 1)
        ELSE Issue("getFirstAsync", sql, conditionValues, "count")

\* Mutant: executeQuery without getDatabase.
executeQuery_NoGetDatabase(db, sql, params) ==
    Issue("getAllAsync", sql, params, "rows")

\* The escape hatch: the caller's statement text goes to the store as it is.
executeQuery(db, sql, params) ==
    IF db = NULL THEN NotInitialized
    ELSE Issue("getAllAsync", sql, params, "rows")

\* Mutant: clearTable removes the row with id 1 only.
clearTable_OneRow(db, table) ==
    IF ~IsOk(validateIdentifier(table, "table")) THEN validateIdentifier(table, "table")
    ELSE IF db = NULL THEN NotInitialized
    ELSE Issue("runAsync",
               <<K("DELETE FROM "), Q(table), K(" WHERE "), Q(<<"i","d">>), K(" = ?")>>,
               <<IntV(1)>>, "void")

clearTable(db, table) ==
    IF ~IsOk(validateIdentifier(table, "table")) THEN validateIdentifier(table, "table")
    ELSE IF db = NULL THEN NotInitialized
    ELSE Issue("runAsync", <<K("DELETE FROM "), Q(table)>>, <<>>, "void")

tableExists(db, table) ==
    IF ~IsOk(validateIdentifier(table, "table")) THEN validateIdentifier(table, "table")
    ELSE IF db = NULL THEN NotInitialized
    ELSE Issue("getFirstAsync",
               <<K("SELECT COUNT(*) as count FROM sqlite_master WHERE type='table' AND name=?")>>,
               <<NameV(table)>>, "exists")

----------------------------------------------------------------------------
(* The embedded store: one database, its tables created beforehand (the      *)
(* schema is set up outside this module), statements executed one at a time. *)
(* A table is the set of its rows; a row maps each column to a value; the     *)
(* column "id" is the integer primary key.                                    *)

IdCol == <<"i","d">>

Schema ==
    (<<"u","s","e","r","s">> :> { IdCol, <<"n","a","m","e">>, <<"a","g","e">> })
    @@ (<<"n","o","t","e","s">> :> { IdCol, <<"n","a","m","e">> })

IsKw(tok, text) == "kw" \in DOMAIN tok /\ tok.kw = text
IsQ(tok) == "quoted" \in DOMAIN tok

\* the first position of the fragment text in sql, 0 when it is not there
PositionOf(sql, text) ==
    IF \E i \in DOMAIN sql : IsKw(sql[i], text)
    THEN CHOOSE i \in DOMAIN sql :
            IsKw(sql[i], text) /\ \A j \in 1..(i - 1) : ~IsKw(sql[j], text)
    ELSE 0

\* "c1" = ? <sep> "c2" = ? ... : at least one term
IsAssignments(seg, sep) ==
    /\ Len(seg) % 3 = 2
    /\ \A i \in DOMAIN seg :
          CASE i % 3 = 1 -> IsQ(seg[i])
            [] i % 3 = 2 -> IsKw(seg[i], " = ?")
            [] OTHER     -> IsKw(seg[i], sep)

AssignedColumns(seg) == [j \in 1..((Len(seg) + 1) \div 3) |-> seg[3 * j - 2].quoted]

\* "c1", "c2", ... : at least one name
IsNameList(seg) ==
    /\ Len(seg) % 2 = 1
    /\ \A i \in DOMAIN seg : IF i % 2 = 1 THEN IsQ(seg[i]) ELSE IsKw(seg[i], ", ")

\* ?, ?, ... : at least one placeholder
IsPlaceholderList(seg) ==
    /\ Len(seg) % 2 = 1
    /\ \A i \in DOMAIN seg : IF i % 2 = 1 THEN IsKw(seg[i], "?") ELSE IsKw(seg[i], ", ")

ListItems(seg) == [j \in 1..((Len(seg) + 1) \div 2) |-> seg[2 * j - 1]]

SyntaxError == [verb |-> "syntax error"]

Statement(verb, table, cols, where, limit) ==
    [verb |-> verb, table |-> table, cols |-> cols, where |-> where, limit |-> limit]

\* WHERE "c1" = ? AND ...  after position from (none when the text ends there)
ParseTail(verb, sql, from, cols, limit) ==
    IF Len(sql) < from THEN Statement(verb, sql[2].quoted, cols, <<>>, limit)
    ELSE IF /\ IsKw(sql[from], " WHERE ")
            /\ IsAssignments(SubSeq(sql, from + 1, Len(sql)), " AND ")
         THEN Statement(verb, sql[2].quoted, cols,
                        AssignedColumns(SubSeq(sql, from + 1, Len(sql))), limit)
    ELSE SyntaxError

ParseInsert(sql) ==
    LET p == PositionOf(sql, ") VALUES (")
        colSeg == SubSeq(sql, 4, p - 1)
        valSeg == SubSeq(sql, p + 1, Len(sql) - 1)
    IN  IF /\ Len(sql) >= 5 /\ IsQ(sql[2]) /\ IsKw(sql[3], " (") /\ p > 3
           /\ IsKw(sql[Len(sql)], ")")
           /\ IsNameList(colSeg) /\ IsPlaceholderList(valSeg)
           /\ Len(colSeg) = Len(valSeg)
        THEN Statement("insert", sql[2].quoted,
                       [j \in DOMAIN ListItems(colSeg) |-> ListItems(colSeg)[j].quoted],
                       <<>>, "none")
        ELSE SyntaxError

ParseUpdate(sql) ==
    LET w == PositionOf(sql, " WHERE ")
        setEnd == IF w = 0 THEN Len(sql) ELSE w - 1
        setSeg == SubSeq(sql, 4, setEnd)
    IN  IF /\ Len(sql) >= 3 /\ IsQ(sql[2]) /\ IsKw(sql[3], " SET ")
           /\ IsAssignments(setSeg, ", ")
        THEN ParseTail("update", sql, setEnd + 1, AssignedColumns(setSeg), "none")
        ELSE SyntaxError

ParseSelect(verb, sql) ==
    LET n == Len(sql)
        limit == IF n >= 3 /\ IsKw(sql[n], " LIMIT 1") THEN "one"
                 ELSE IF n >= 3 /\ IsKw(sql[n], " LIMIT ?") THEN "limit"
                 ELSE IF n >= 4 /\ IsKw(sql[n], " OFFSET ?") /\ IsKw(sql[n - 1], " LIMIT ?")
                      THEN "limit offset"
                 ELSE "none"
        body == CASE limit = "none" -> sql
                  [] limit = "limit offset" -> SubSeq(sql, 1, n - 2)
                  [] OTHER -> SubSeq(sql, 1, n - 1)
    IN  IF Len(sql) >= 2 /\ IsQ(sql[2]) THEN ParseTail(verb, body, 3, <<>>, limit)
        ELSE SyntaxError

\* The statement a text stands for.
Parse(sql) ==
    IF Len(sql) = 0 \/ (\E i \in DOMAIN sql : ~IsQ(sql[i]) /\ "kw" \notin DOMAIN sql[i])
    THEN SyntaxError
    ELSE CASE IsKw(sql[1], "INSERT INTO ") -> ParseInsert(sql)
           [] IsKw(sql[1], "UPDATE ") -> ParseUpdate(sql)
           [] IsKw(sql[1], "DELETE FROM ") ->
                 IF Len(sql) >= 2 /\ IsQ(sql[2])
                 THEN ParseTail("delete", sql, 3, <<>>, "none") ELSE SyntaxError
           [] IsKw(sql[1], "SELECT * FROM ") -> ParseSelect("select", sql)
           [] IsKw(sql[1], "SELECT COUNT(*) as count FROM ") ->
                 IF Len(sql) >= 2 /\ IsQ(sql[2])
                 THEN ParseTail("count", sql, 3, <<>>, "none") ELSE SyntaxError
           [] IsKw(sql[1], "SELECT COUNT(*) as count FROM sqlite_master WHERE type='table' AND name=?")
                 /\ Len(sql) = 1 ->
                 [verb |-> "catalog"]
           [] OTHER -> SyntaxError

StoreError(message) == [status |-> "error", error |-> "StoreError", message |-> message]

\* What the store answers to a statement it has executed.
Answer(lastInsertRowId, changes, rows) ==
    [status |-> "ok", lastInsertRowId |-> lastInsertRowId, changes |-> changes, rows |-> rows]

\* the number of ? in a statement
Placeholders(st) ==
    CASE st.verb = "catalog" -> 1
      [] st.verb \in {"insert", "update"} -> Len(st.cols) + Len(st.where)
      [] OTHER -> Len(st.where)
                  + (CASE st.limit = "limit" -> 1 [] st.limit = "limit offset" -> 2 [] OTHER -> 0)

\* SQL equality: NULL equals nothing
SqlEq(a, b) == a.t # "null" /\ b.t # "null" /\ a = b

\* the row satisfies every term of the WHERE clause; whereParams are its bound values
Matches(row, st, whereParams) ==
    \A i \in DOMAIN st.where : SqlEq(row[st.where[i]], whereParams[i])

RECURSIVE SortById(_)
SortById(rows) ==
    IF rows = {} THEN <<>>
    ELSE LET first == CHOOSE r \in rows : \A q \in rows : r[IdCol].v <= q[IdCol].v
         IN  <<first>> \o SortById(rows \ {first})

\* the row id the store gives a row inserted without one
NextRowId(rows) ==
    IF rows = {} THEN 1
    ELSE (CHOOSE m \in { r[IdCol].v : r \in rows } : \A r \in rows : r[IdCol].v <= m) + 1

\* the value bound to column c by the positional params of the column list cols
BoundTo(cols, params, c) ==
    params[CHOOSE i \in DOMAIN cols : cols[i] = c /\ \A j \in (i + 1)..Len(cols) : cols[j] # c]

ValidKeys(rows) ==
    /\ \A r \in rows : r[IdCol].t = "int"
    /\ \A r, q \in rows : r[IdCol] = q[IdCol] => r = q

ExecInsert(tabs, st, params) ==
    LET rows == tabs[st.table]
        given == [c \in Schema[st.table] |->
                     IF c \in Range(st.cols) THEN BoundTo(st.cols, params, c) ELSE NullV]
        row == IF given[IdCol] = NullV
               THEN [given EXCEPT ![IdCol] = IntV(NextRowId(rows))]
               ELSE given
    IN  IF ~ValidKeys(rows \cup {row}) \/ (\E r \in rows : r[IdCol] = row[IdCol])
        THEN [tables |-> tabs, outcome |-> StoreError("constraint failed")]
        ELSE [tables |-> [tabs EXCEPT ![st.table] = rows \cup {row}],
              outcome |-> Answer(row[IdCol].v, 1, <<>>)]

ExecUpdate(tabs, st, params) ==
    LET rows == tabs[st.table]
        whereParams == SubSeq(params, Len(st.cols) + 1, Len(params))
        hit == { r \in rows : Matches(r, st, whereParams) }
        Updated(r) == [c \in DOMAIN r |->
                          IF c \in Range(st.cols) THEN BoundTo(st.cols, params, c) ELSE r[c]]
        after == (rows \ hit) \cup { Updated(r) : r \in hit }
    IN  IF ~ValidKeys(after) \/ Cardinality(after) # Cardinality(rows)
        THEN [tables |-> tabs, outcome |-> StoreError("constraint failed")]
        ELSE [tables |-> [tabs EXCEPT ![st.table] = after],
              outcome |-> Answer(0, Cardinality(hit), <<>>)]

ExecDelete(tabs, st, params) ==
    LET rows == tabs[st.table]
        hit == { r \in rows : Matches(r, st, params) }
    IN  [tables |-> [tabs EXCEPT ![st.table] = rows \ hit],
         outcome |-> Answer(0, Cardinality(hit), <<>>)]

\* LIMIT n OFFSET m over the rows in row id order: a negative limit is no
\* limit, a negative offset is none
ExecSelect(tabs, st, params) ==
    LET whereParams == SubSeq(params, 1, Len(st.where))
        found == SortById({ r \in tabs[st.table] : Matches(r, st, whereParams) })
        limit == CASE st.limit = "one" -> IntV(1)
                   [] st.limit = "none" -> IntV(-1)
                   [] OTHER -> params[Len(st.where) + 1]
        offset == IF st.limit = "limit offset" THEN params[Len(st.where) + 2] ELSE IntV(0)
        skip == IF offset.v < 0 THEN 0 ELSE offset.v
        last == IF limit.v < 0 \/ skip + limit.v > Len(found) THEN Len(found)
                ELSE skip + limit.v
    IN  IF limit.t # "int" \/ offset.t # "int"
        THEN [tables |-> tabs, outcome |-> StoreError("datatype mismatch")]
        ELSE [tables |-> tabs, outcome |-> Answer(0, 0, SubSeq(found, skip + 1, last))]

ExecCount(tabs, st, params) ==
    [tables |-> tabs,
     outcome |-> Answer(0, 0,
        <<[count |-> Cardinality({ r \in tabs[st.table] : Matches(r, st, params) })]>>)]

\* What the store keeps of a bound value: it has integers, text and null, and
\* no booleans; true and false are bound as the integers 1 and 0.
Stored(v) == IF v.t = "bool" THEN IntV(IF v.v THEN 1 ELSE 0) ELSE v

Bind(values) == [i \in DOMAIN values |-> Stored(values[i])]

\* The store executes one statement: the tables afterwards and its answer.
Exec(tabs, sql, bindParams) ==
    LET st == Parse(sql)
        params == Bind(bindParams)
    IN  IF st.verb = "syntax error"
        THEN [tables |-> tabs, outcome |-> StoreError("syntax error")]
        ELSE IF Placeholders(st) # Len(params)
        THEN [tables |-> tabs, outcome |-> StoreError("bind count")]
        ELSE IF st.verb = "catalog"
        THEN [tables |-> tabs,
              outcome |-> Answer(0, 0,
                 <<[count |-> Cardinality({ t \in DOMAIN tabs : NameV(t) = params[1] })]>>)]
        ELSE IF st.table \notin DOMAIN tabs
        THEN [tables |-> tabs, outcome |-> StoreError("no such table")]
        ELSE IF \E c \in Range(st.cols) \cup Range(st.where) : c \notin Schema[st.table]
        THEN [tables |-> tabs, outcome |-> StoreError("no such column")]
        ELSE CASE st.verb = "insert" -> ExecInsert(tabs, st, params)
               [] st.verb = "update" -> ExecUpdate(tabs, st, params)
               [] st.verb = "delete" -> ExecDelete(tabs, st, params)
               [] st.verb = "select" -> ExecSelect(tabs, st, params)
               [] st.verb = "count"  -> ExecCount(tabs, st, params)

\* What the operation makes of the store's answer.
Returned(then, answer) ==
    CASE then = "lastInsertRowId" -> [status |-> "ok", value |-> IntV(answer.lastInsertRowId)]
      [] then = "changes" -> [status |-> "ok", value |-> IntV(answer.changes)]
      [] then = "firstOrNull" ->
            [status |-> "ok",
             value |-> IF Len(answer.rows) = 0 THEN NullV ELSE [t |-> "row", v |-> answer.rows[1]]]
      [] then = "rows" -> [status |-> "ok", value |-> [t |-> "rows", v |-> answer.rows]]
      [] then = "count" ->
            [status |-> "ok",
             value |-> IF Len(answer.rows) = 0 \/ answer.rows[1].count = 0
                       THEN IntV(0) ELSE IntV(answer.rows[1].count)]
      [] then = "exists" ->
            [status |-> "ok",
             value |-> [t |-> "bool",
                        v |-> (IF Len(answer.rows) = 0 THEN 0 ELSE answer.rows[1].count) > 0]]
      [] then = "void" -> [status |-> "ok", value |-> Undefined]

----------------------------------------------------------------------------
(* A call of an operation by a caller that awaits it: the synchronous part, *)
(* the statement executed by the store, and the value or error it settles   *)
(* with.                                                                    *)

\* The same call with every data value (record values, id, where-value,
\* condition values) replaced by one fixed value and the names kept issues
\* the statements recorded in twin.
V0 == TextV("v0")
BlankObject(o) == [i \in DOMAIN o |-> [k |-> o[i].k, v |-> V0]]

Statements(p) ==
    IF p.status = "issue" THEN <<[api |-> p.api, sql |-> p.sql, params |-> p.params]>>
    ELSE <<>>

\* Mutant: a statement that the store rejects is submitted a second time.
Call_RetryOnce(req, p, blank) ==
    LET ex == Exec(tables, p.sql, p.params)
        again == Exec(ex.tables, p.sql, p.params)
        rejected == p.status = "issue" /\ ex.outcome.status # "ok"
        final == IF rejected THEN again ELSE ex
    IN  /\ call' = req
        /\ before' = tables
        /\ twin' = Statements(blank)
        /\ issued' = IF rejected THEN Statements(p) \o Statements(p) ELSE Statements(p)
        /\ IF p.status = "issue"
           THEN /\ tables' = final.tables
                /\ result' = IF final.outcome.status = "ok"
                             THEN Returned(p.then, final.outcome) ELSE final.outcome
           ELSE /\ tables' = tables
                /\ result' = p
        /\ UNCHANGED dbInstance

\* req names the call; p is what its synchronous part came to (an error thrown
\* or a statement handed to the store), blank the same for the twin call.
Call(req, p, blank) ==
    LET ex == Exec(tables, p.sql, p.params)
    IN  /\ call' = req
        /\ before' = tables
        /\ twin' = Statements(blank)
        /\ issued' = Statements(p)
        /\ IF p.status = "issue"
           THEN /\ tables' = ex.tables
                /\ result' = IF ex.outcome.status = "ok"
                             THEN Returned(p.then, ex.outcome) ELSE ex.outcome
           ELSE /\ tables' = tables
                /\ result' = p
        /\ UNCHANGED dbInstance

NoCall == [op |-> "none"]

Callers == {"c1", "c2"}

Idle == [op |-> "idle", pc |-> "settled"]

NoTasks ==
    /\ opened = 0 /\ closed = {}
    /\ inTx = FALSE /\ snapshot = tables
    /\ tasks = [c \in Callers |-> Idle]
    /\ ops = 0
    /\ window = [opens |-> 0, handles |-> {}, ready |-> {}]
    /\ outside = {}
    /\ log = <<>>

\* The two stores as they are created, and their services untouched.
SubscriptionCreated ==
    [isInitialized |-> FALSE, isPremium |-> FALSE, currentPlan |-> "free",
     expirationDate |-> NullV, isLoading |-> FALSE, error |-> NullV, customerInfo |-> NullV]

AuthCreated ==
    [user |-> NullV, session |-> NullV, isLoading |-> FALSE, isInitialized |-> FALSE,
     error |-> NullV]

AppIdle ==
    /\ sub = SubscriptionCreated
    /\ rc = [isInitialized |-> FALSE, configures |-> 0, listeners |-> 0]
    /\ auth = AuthCreated
    /\ supa = [configured |-> TRUE, appStateSubscription |-> FALSE, setups |-> 0,
               listeners |-> 0]

BuildIdle ==
    /\ dbInstance = NULL
    /\ tables = [t \in DOMAIN Schema |-> {}]
    /\ pc = "idle"
    /\ NoTasks
    /\ call = NoCall /\ before = tables /\ issued = <<>> /\ result = NotCalled /\ twin = <<>>

----------------------------------------------------------------------------
(* SpecIdent: validateIdentifier applied to every enumerated string *)

IdentInit ==
    /\ idName \in IdentInputs
    /\ idOutcome = [k \in Kinds |-> NotCalled]
    /\ AppIdle
    /\ BuildIdle

ValidateCall(kind) ==
    /\ idOutcome[kind] = NotCalled
    /\ idOutcome' = [idOutcome EXCEPT ![kind] = validateIdentifier(idName, kind)]
    /\ UNCHANGED <<idName, appVars, buildVars, inTx, snapshot, taskVars>>

IdentNext == \E kind \in Kinds : ValidateCall(kind)

SpecIdent == IdentInit /\ [][IdentNext]_vars

----------------------------------------------------------------------------
(* SpecBuild: every operation called once, with every enumerated argument,  *)
(* on a database that is or is not initialized, over each initial store.    *)

MaxCols == 2

N_notes == <<"n","o","t","e","s">>
Payload == TextV("'; DROP TABLE users; --")
Alice   == TextV("Alice")

TableInputs == { N_users, N_Table1, N_select, N_1bad }
ColInputs   == { N_name, N_age, N_DROP }
WhereColInputs == ColInputs \cup { N_quote }
Values      == { Alice, Payload }
IdInputs    == { IntV(1), IntV(7), Payload }
LimitInputs == { Undefined, IntV(0), IntV(1) }

\* The objects with up to n of the columns as keys, in every key order.
RECURSIVE ObjectsUpTo(_)
ObjectsUpTo(n) ==
    IF n = 0 THEN { <<>> }
    ELSE LET shorter == ObjectsUpTo(n - 1)
         IN  shorter \cup
             UNION { { Append(o, [k |-> c, v |-> v]) :
                         o \in { x \in shorter :
                                   Len(x) = n - 1 /\ c \notin Range(ObjectKeys(x)) },
                         v \in Values } : c \in ColInputs }

UserRow(id, name, age) == (IdCol :> IntV(id)) @@ (N_name :> name) @@ (N_age :> age)
NoteRow(id, name) == (IdCol :> IntV(id)) @@ (N_name :> name)

Objects == ObjectsUpTo(MaxCols)

InitialStores ==
    { (N_users :> rows) @@ (N_notes :> { NoteRow(1, Alice) }) :
        rows \in { {},
                   { UserRow(1, Alice, Payload) },
                   { UserRow(1, Alice, Alice), UserRow(2, Payload, Alice) } } }

QueryInputs ==
    { [sql |-> <<K("SELECT * FROM "), Q(N_users)>>, params |-> <<>>],
      [sql |-> <<K("SELECT * FROM "), Q(N_notes), K(" WHERE "), Q(N_name), K(" = ?")>>,
       params |-> <<Alice>>] }

BuildInit ==
    /\ idName = <<>>
    /\ idOutcome = [k \in Kinds |-> NotCalled]
    /\ AppIdle
    /\ dbInstance \in { NULL, 1 }
    /\ tables \in InitialStores
    /\ opened = (IF dbInstance = NULL THEN 0 ELSE 1) /\ closed = {}
    /\ inTx = FALSE /\ snapshot = tables
    /\ tasks = [c \in Callers |-> Idle]
    /\ ops = 0
    /\ window = [opens |-> 0, handles |-> {}, ready |-> {dbInstance} \ {NULL}]
    /\ outside = {}
    /\ log = <<>>
    /\ pc = "ready"
    /\ call = NoCall /\ before = tables /\ issued = <<>> /\ result = NotCalled /\ twin = <<>>


OptionalColInputs == { Absent, Given(<<>>) } \cup { Given(c) : c \in WhereColInputs }

InsertCall ==
    /\ pc = "ready"
    /\ pc' = "done"
    /\ \E table \in TableInputs, data \in Objects :
          Call([op |-> "insert", table |-> table, data |-> data],
                  insert(dbInstance, table, data),
                  insert(dbInstance, table, BlankObject(data)))
    /\ UNCHANGED <<identVars, appVars, inTx, snapshot, taskVars>>

UpdateByIdCall ==
    /\ pc = "ready"
    /\ pc' = "done"
    /\ \E table \in TableInputs, id \in IdInputs, data \in Objects :
          Call([op |-> "updateById", table |-> table, id |-> id, data |-> data],
                  updateById(dbInstance, table, id, data),
                  updateById(dbInstance, table, V0, BlankObject(data)))
    /\ UNCHANGED <<identVars, appVars, inTx, snapshot, taskVars>>

UpdateWhereCall ==
    /\ pc = "ready"
    /\ pc' = "done"
    /\ \E table \in TableInputs, data \in Objects,
          whereColumn \in WhereColInputs, whereValue \in Values :
          Call([op |-> "updateWhere", table |-> table, data |-> data,
                   whereColumn |-> whereColumn, whereValue |-> whereValue],
                  updateWhere(dbInstance, table, data, whereColumn, whereValue),
                  updateWhere(dbInstance, table, BlankObject(data), whereColumn, V0))
    /\ UNCHANGED <<identVars, appVars, inTx, snapshot, taskVars>>

UpdateWhereAndCall ==
    /\ pc = "ready"
    /\ pc' = "done"
    /\ \E table \in TableInputs, data \in Objects, conditions \in Objects :
          Call([op |-> "updateWhereAnd", table |-> table, data |-> data,
                   conditions |-> conditions],
                  updateWhereAnd(dbInstance, table, data, conditions),
                  updateWhereAnd(dbInstance, table, BlankObject(data), BlankObject(conditions)))
    /\ UNCHANGED <<identVars, appVars, inTx, snapshot, taskVars>>

DeleteByIdCall ==
    /\ pc = "ready"
    /\ pc' = "done"
    /\ \E table \in TableInputs, id \in IdInputs :
          Call([op |-> "deleteById", table |-> table, id |-> id],
                  deleteById(dbInstance, table, id),
                  deleteById(dbInstance, table, V0))
    /\ UNCHANGED <<identVars, appVars, inTx, snapshot, taskVars>>

DeleteWhereCall ==
    /\ pc = "ready"
    /\ pc' = "done"
    /\ \E table \in TableInputs, whereColumn \in WhereColInputs, whereValue \in Values :
          Call([op |-> "deleteWhere", table |-> table,
                   whereColumn |-> whereColumn, whereValue |-> whereValue],
                  deleteWhere(dbInstance, table, whereColumn, whereValue),
                  deleteWhere(dbInstance, table, whereColumn, V0))
    /\ UNCHANGED <<identVars, appVars, inTx, snapshot, taskVars>>

DeleteWhereAndCall ==
    /\ pc = "ready"
    /\ pc' = "done"
    /\ \E table \in TableInputs, conditions \in Objects :
          Call([op |-> "deleteWhereAnd", table |-> table, conditions |-> conditions],
                  deleteWhereAnd(dbInstance, table, conditions),
                  deleteWhereAnd(dbInstance, table, BlankObject(conditions)))
    /\ UNCHANGED <<identVars, appVars, inTx, snapshot, taskVars>>

FindByIdCall ==
    /\ pc = "ready"
    /\ pc' = "done"
    /\ \E table \in TableInputs, id \in IdInputs :
          Call([op |-> "findById", table |-> table, id |-> id],
                  findById(dbInstance, table, id),
                  findById(dbInstance, table, V0))
    /\ UNCHANGED <<identVars, appVars, inTx, snapshot, taskVars>>

FindByCall ==
    /\ pc = "ready"
    /\ pc' = "done"
    /\ \E table \in TableInputs, column \in WhereColInputs, value \in Values :
          Call([op |-> "findBy", table |-> table, whereColumn |-> column, whereValue |-> value],
                  findBy(dbInstance, table, column, value),
                  findBy(dbInstance, table, column, V0))
    /\ UNCHANGED <<identVars, appVars, inTx, snapshot, taskVars>>

FindOneByCall ==
    /\ pc = "ready"
    /\ pc' = "done"
    /\ \E table \in TableInputs, column \in WhereColInputs, value \in Values :
          Call([op |-> "findOneBy", table |-> table, whereColumn |-> column,
                   whereValue |-> value],
                  findOneBy(dbInstance, table, column, value),
                  findOneBy(dbInstance, table, column, V0))
    /\ UNCHANGED <<identVars, appVars, inTx, snapshot, taskVars>>

FindWhereAndCall ==
    /\ pc = "ready"
    /\ pc' = "done"
    /\ \E table \in TableInputs, conditions \in Objects :
          Call([op |-> "findWhereAnd", table |-> table, conditions |-> conditions],
                  findWhereAnd(dbInstance, table, conditions),
                  findWhereAnd(dbInstance, table, BlankObject(conditions)))
    /\ UNCHANGED <<identVars, appVars, inTx, snapshot, taskVars>>

FindAllCall ==
    /\ pc = "ready"
    /\ pc' = "done"
    /\ \E table \in TableInputs, limit \in LimitInputs, offset \in LimitInputs :
          Call([op |-> "findAll", table |-> table, limit |-> limit, offset |-> offset],
                  findAll(dbInstance, table, limit, offset),
                  findAll(dbInstance, table, limit, offset))
    /\ UNCHANGED <<identVars, appVars, inTx, snapshot, taskVars>>

CountCall ==
    /\ pc = "ready"
    /\ pc' = "done"
    /\ \E table \in TableInputs, column \in OptionalColInputs,
          whereValue \in Values \cup { Undefined } :
          Call([op |-> "count", table |-> table, column |-> column, whereValue |-> whereValue],
                  count(dbInstance, table, column, whereValue),
                  count(dbInstance, table, column, IF whereValue = Undefined THEN Undefined ELSE V0))
    /\ UNCHANGED <<identVars, appVars, inTx, snapshot, taskVars>>

CountWhereAndCall ==
    /\ pc = "ready"
    /\ pc' = "done"
    /\ \E table \in TableInputs, conditions \in Objects :
          Call([op |-> "countWhereAnd", table |-> table, conditions |-> conditions],
                  countWhereAnd(dbInstance, table, conditions),
                  countWhereAnd(dbInstance, table, BlankObject(conditions)))
    /\ UNCHANGED <<identVars, appVars, inTx, snapshot, taskVars>>

ExecuteQueryCall ==
    /\ pc = "ready"
    /\ pc' = "done"
    /\ \E q \in QueryInputs :
          Call([op |-> "executeQuery", sql |-> q.sql, params |-> q.params],
                  executeQuery(dbInstance, q.sql, q.params),
                  executeQuery(dbInstance, q.sql, q.params))
    /\ UNCHANGED <<identVars, appVars, inTx, snapshot, taskVars>>

ClearTableCall ==
    /\ pc = "ready"
    /\ pc' = "done"
    /\ \E table \in TableInputs :
          Call([op |-> "clearTable", table |-> table],
                  clearTable(dbInstance, table), clearTable(dbInstance, table))
    /\ UNCHANGED <<identVars, appVars, inTx, snapshot, taskVars>>

TableExistsCall ==
    /\ pc = "ready"
    /\ pc' = "done"
    /\ \E table \in TableInputs \cup { N_notes } :
          Call([op |-> "tableExists", table |-> table],
                  tableExists(dbInstance, table), tableExists(dbInstance, table))
    /\ UNCHANGED <<identVars, appVars, inTx, snapshot, taskVars>>

BuildNext ==
    \/ InsertCall \/ UpdateByIdCall \/ UpdateWhereCall \/ UpdateWhereAndCall
    \/ DeleteByIdCall \/ DeleteWhereCall \/ DeleteWhereAndCall
    \/ FindByIdCall \/ FindByCall \/ FindOneByCall \/ FindWhereAndCall \/ FindAllCall
    \/ CountCall \/ CountWhereAndCall \/ ExecuteQueryCall
    \/ ClearTableCall \/ TableExistsCall

SpecBuild == BuildInit /\ [][BuildNext]_vars

----------------------------------------------------------------------------
(* Asynchronous callers.  A caller has at most one asynchronous operation  *)
(* in flight; a step of a caller is the code that runs between one await    *)
(* and the next.  The connection executes its statements in the order in    *)
(* which they were handed to it, so a statement is executed in the step     *)
(* that issues it, and the caller resumes in a later step.                  *)

MaxOps == 3

Resolved(op, value) ==
    [op |-> op, pc |-> "settled", outcome |-> [status |-> "resolved", value |-> value]]

Rejected(op, error) ==
    [op |-> op, pc |-> "settled", outcome |-> [status |-> "rejected", error |-> error]]

Free(c) == tasks[c].pc = "settled"

Closing == \E c \in Callers : tasks[c].pc = "closing"

\* Teardown is coordinated by the callers: nothing starts while closeDatabase
\* is in flight.
CanStart(c) == Free(c) /\ ~Closing /\ ops < MaxOps

Settle(c, task) == tasks' = [tasks EXCEPT ![c] = task]

\* initDatabase up to its first await: the handle if there is one, else the
\* call of openDatabaseAsync
InitCall(c) ==
    /\ CanStart(c)
    /\ ops' = ops + 1
    /\ IF dbInstance # NULL
       THEN /\ Settle(c, Resolved("initDatabase", dbInstance))
            /\ window' = [window EXCEPT !.handles = @ \cup {dbInstance}]
       ELSE /\ Settle(c, [op |-> "initDatabase", pc |-> "opening"])
            /\ window' = window
    /\ UNCHANGED <<dbInstance, opened, closed, outside, log, storeVars, identVars, appVars, pc, callVars>>

\* openDatabaseAsync resolves with a new handle, which is assigned to
\* dbInstance; the pragma is issued on it
InitOpened(c) ==
    /\ tasks[c].pc = "opening"
    /\ opened' = opened + 1
    /\ dbInstance' = opened + 1
    /\ Settle(c, [op |-> "initDatabase", pc |-> "pragma", handle |-> opened + 1])
    /\ window' = [window EXCEPT !.opens = @ + 1]
    /\ UNCHANGED <<closed, ops, outside, log, storeVars, identVars, appVars, pc, callVars>>

\* openDatabaseAsync rejects: nothing is assigned
InitOpenFailed(c) ==
    /\ tasks[c].pc = "opening"
    /\ Settle(c, Rejected("initDatabase", StoreError("unable to open database file")))
    /\ UNCHANGED <<dbInstance, opened, closed, ops, window, outside, log, storeVars, identVars, appVars,
                   pc, callVars>>

\* the pragma resolves: return dbInstance, whatever it is by now
InitPragmaDone(c) ==
    /\ tasks[c].pc = "pragma"
    /\ Settle(c, Resolved("initDatabase", dbInstance))
    /\ window' = [window EXCEPT !.handles = @ \cup {dbInstance},
                                 !.ready = @ \cup {tasks[c].handle}]
    /\ UNCHANGED <<dbInstance, opened, closed, ops, outside, log, storeVars, identVars, appVars, pc, callVars>>

\* the pragma rejects: dbInstance keeps the handle
InitPragmaFailed(c) ==
    /\ tasks[c].pc = "pragma"
    /\ Settle(c, Rejected("initDatabase", StoreError("disk I/O error")))
    /\ UNCHANGED <<dbInstance, opened, closed, ops, window, outside, log, storeVars, identVars, appVars,
                   pc, callVars>>

\* closeDatabase up to its await; it is called when nothing is in flight
CloseCall(c) ==
    /\ \A d \in Callers : Free(d)
    /\ ops < MaxOps
    /\ ops' = ops + 1
    /\ window' = [opens |-> 0, handles |-> {}, ready |-> window.ready]
    /\ IF dbInstance # NULL
       THEN Settle(c, [op |-> "closeDatabase", pc |-> "closing", handle |-> dbInstance])
       ELSE Settle(c, Resolved("closeDatabase", Undefined))
    /\ UNCHANGED <<dbInstance, opened, closed, outside, log, storeVars, identVars, appVars, pc, callVars>>

\* closeAsync resolves: the connection is gone, and an open transaction with it
CloseDone(c) ==
    /\ tasks[c].pc = "closing"
    /\ closed' = closed \cup {tasks[c].handle}
    /\ dbInstance' = NULL
    /\ tables' = IF inTx THEN snapshot ELSE tables
    /\ inTx' = FALSE
    /\ Settle(c, Resolved("closeDatabase", Undefined))
    /\ UNCHANGED <<opened, ops, window, outside, log, snapshot, identVars, appVars, pc, callVars>>

getDatabase(db) ==
    IF db = NULL THEN NotInitialized ELSE [status |-> "ok", value |-> db]

\* getDatabase is synchronous
GetDatabaseCall ==
    /\ ~Closing
    /\ call' = [op |-> "getDatabase", db |-> dbInstance, closed |-> closed]
    /\ result' = getDatabase(dbInstance)
    /\ before' = tables /\ issued' = <<>> /\ twin' = <<>>
    /\ UNCHANGED <<dbInstance, taskVars, storeVars, identVars, appVars, pc>>

\* One call of each operation, with valid names, by a caller that awaits it.
\* The request records what dbInstance was and which handles had been closed.
OneUser == <<[k |-> N_name, v |-> Alice]>>
OneAge  == <<[k |-> N_age, v |-> IntV(1)]>>

Requests(db, cl) ==
    { [req |-> [op |-> "insert", db |-> db, closed |-> cl], p |-> insert(db, N_users, OneUser)],
      [req |-> [op |-> "updateById", db |-> db, closed |-> cl], p |-> updateById(db, N_users, IntV(1), OneAge)],
      [req |-> [op |-> "updateWhere", db |-> db, closed |-> cl],
       p |-> updateWhere(db, N_users, OneAge, N_name, Alice)],
      [req |-> [op |-> "updateWhereAnd", db |-> db, closed |-> cl],
       p |-> updateWhereAnd(db, N_users, OneAge, OneUser)],
      [req |-> [op |-> "deleteById", db |-> db, closed |-> cl], p |-> deleteById(db, N_users, IntV(1))],
      [req |-> [op |-> "deleteWhere", db |-> db, closed |-> cl], p |-> deleteWhere(db, N_users, N_name, Alice)],
      [req |-> [op |-> "deleteWhereAnd", db |-> db, closed |-> cl], p |-> deleteWhereAnd(db, N_users, OneAge)],
      [req |-> [op |-> "findById", db |-> db, closed |-> cl], p |-> findById(db, N_users, IntV(1))],
      [req |-> [op |-> "findBy", db |-> db, closed |-> cl], p |-> findBy(db, N_users, N_name, Alice)],
      [req |-> [op |-> "findOneBy", db |-> db, closed |-> cl], p |-> findOneBy(db, N_users, N_name, Alice)],
      [req |-> [op |-> "findWhereAnd", db |-> db, closed |-> cl], p |-> findWhereAnd(db, N_users, OneUser)],
      [req |-> [op |-> "findAll", db |-> db, closed |-> cl], p |-> findAll(db, N_users, Undefined, Undefined)],
      [req |-> [op |-> "count", db |-> db, closed |-> cl], p |-> count(db, N_users, Absent, Undefined)],
      [req |-> [op |-> "countWhereAnd", db |-> db, closed |-> cl], p |-> countWhereAnd(db, N_users, OneUser)],
      [req |-> [op |-> "executeQuery", db |-> db, closed |-> cl],
       p |-> executeQuery(db, <<K("SELECT * FROM "), Q(N_users)>>, <<>>)],
      [req |-> [op |-> "clearTable", db |-> db, closed |-> cl], p |-> clearTable(db, N_users)],
      [req |-> [op |-> "tableExists", db |-> db, closed |-> cl], p |-> tableExists(db, N_users)] }

OperationCall ==
    /\ \E c \in Callers : CanStart(c)
    /\ ops' = ops + 1
    /\ \E x \in Requests(dbInstance, closed) : Call(x.req, x.p, x.p)
    /\ UNCHANGED <<opened, closed, tasks, window, outside, log, inTx, snapshot, identVars, appVars, pc>>

----------------------------------------------------------------------------
(* transaction(callback): getDatabase, then db.withTransactionAsync(callback) *)
(* of the store library: BEGIN, the callback, COMMIT; when any of them       *)
(* throws, ROLLBACK and the error is thrown again.  It resolves with no      *)
(* value, and it does not keep the other statements of the connection out.   *)
(* A callback is a script: a list of steps, each an insert of this module    *)
(* that is awaited ("insert": a row of users; "missing": a row of a table    *)
(* that does not exist) or "throw"; after the last step it returns           *)
(* ReturnValue.                                                              *)

ReturnValue == TextV("V")
CallbackError == [status |-> "error", error |-> "CallbackError"]

\* nothing of a callback runs after it threw
Scripts ==
    { <<>>, <<"insert", "insert">>, <<"insert", "throw">>, <<"insert", "missing">>,
      <<"insert", "insert", "throw">> }

\* the row written by step i of the callback of the call numbered n, or (i = 0)
\* by the insert numbered n outside any callback
RowOf(n, i) == <<[k |-> N_name, v |-> IntV(n)], [k |-> N_age, v |-> IntV(i)]>>

Visible(tabs, n, i) ==
    \E r \in tabs[N_users] : r[N_name] = IntV(n) /\ r[N_age] = IntV(i)

\* n: the number of the call; db: what getDatabase found; closed: the handles
\* closed by then; callback: "not run",
\* "running", "returned" or "threw"; thrown: what it threw; wrote: the steps
\* whose insert succeeded
TxTask(at, script, callback, error) ==
    [op |-> "transaction", pc |-> at, n |-> ops, db |-> dbInstance, closed |-> closed,
     script |-> script, i |-> 1, wrote |-> {},
     callback |-> callback, thrown |-> NotCalled, error |-> error, outcome |-> NotCalled]

TxSettled(task, outcome) == [task EXCEPT !.pc = "settled", !.outcome = outcome]

\* execAsync('ROLLBACK') in the catch block, and throw e
Rollback(c, task) ==
    IF inTx
    THEN /\ tables' = snapshot
         /\ inTx' = FALSE
         /\ Settle(c, TxSettled(task, [status |-> "rejected", error |-> task.error]))
    ELSE /\ tables' = tables
         /\ inTx' = inTx
         /\ Settle(c, TxSettled(task,
               [status |-> "rejected",
                error |-> StoreError("cannot rollback - no transaction is active")]))

\* transaction(callback) up to the first await: getDatabase and BEGIN
TxCall(c, script) ==
    /\ CanStart(c)
    /\ ops' = ops + 1
    /\ IF dbInstance = NULL
       THEN /\ Settle(c, TxSettled(TxTask("call", script, "not run", NotCalled),
                                   [status |-> "rejected", error |-> NotInitialized]))
            /\ UNCHANGED storeVars
       ELSE IF inTx
       THEN /\ Settle(c, TxTask("rollback", script, "not run",
                     StoreError("cannot start a transaction within a transaction")))
            /\ UNCHANGED storeVars
       ELSE /\ Settle(c, TxTask("callback", script, "running", NotCalled))
            /\ inTx' = TRUE
            /\ snapshot' = tables
            /\ tables' = tables
    /\ UNCHANGED <<dbInstance, opened, closed, window, outside, log, identVars, appVars, pc, callVars>>

\* the callback's next step
TxStep(c) ==
    LET task == tasks[c]
        step == task.script[task.i]
        p == insert(dbInstance, IF step = "insert" THEN N_users ELSE N_Table1, RowOf(task.n, task.i))
        ex == Exec(tables, p.sql, p.params)
        threw(e) == [task EXCEPT !.callback = "threw", !.thrown = e, !.error = e]
    IN  /\ task.op = "transaction" /\ task.pc = "callback"
        /\ task.i <= Len(task.script)
        /\ IF step = "throw"
           THEN Rollback(c, threw(CallbackError))
           ELSE IF p.status # "issue"
           THEN Rollback(c, threw(p))
           ELSE IF ex.outcome.status = "ok"
           THEN /\ tables' = ex.tables
                /\ inTx' = inTx
                /\ Settle(c, [task EXCEPT !.i = @ + 1, !.wrote = @ \cup {task.i}])
           ELSE \* the insert rejects; the callback throws when it resumes
                /\ tables' = tables
                /\ inTx' = inTx
                /\ Settle(c, [threw(ex.outcome) EXCEPT !.pc = "rollback"])
        /\ UNCHANGED <<dbInstance, opened, closed, ops, window, outside, log, snapshot, identVars, appVars,
                       pc, callVars>>

\* the callback returns; execAsync('COMMIT')
TxCommit(c) ==
    LET task == [tasks[c] EXCEPT !.callback = "returned"]
    IN  /\ tasks[c].op = "transaction" /\ tasks[c].pc = "callback"
        /\ tasks[c].i > Len(tasks[c].script)
        /\ IF inTx
           THEN /\ inTx' = FALSE
                /\ Settle(c, TxSettled(task, [status |-> "resolved", value |-> Undefined]))
           ELSE /\ inTx' = inTx
                /\ Settle(c, [task EXCEPT !.pc = "rollback",
                                 !.error = StoreError("cannot commit - no transaction is active")])
        /\ UNCHANGED <<dbInstance, tables, opened, closed, ops, window, outside, log, snapshot,
                       identVars, appVars, pc, callVars>>

\* BEGIN, COMMIT or an awaited statement of the callback rejected
TxRollback(c) ==
    /\ tasks[c].op = "transaction" /\ tasks[c].pc = "rollback"
    /\ Rollback(c, tasks[c])
    /\ UNCHANGED <<dbInstance, opened, closed, ops, window, outside, log, snapshot, identVars, appVars,
                   pc, callVars>>

----------------------------------------------------------------------------
(* SpecLife: the callers open, use and close the database; calls of        *)
(* initDatabase overlap.  The callbacks of the transactions are empty.     *)

LifeInit ==
    /\ idName = <<>>
    /\ idOutcome = [k \in Kinds |-> NotCalled]
    /\ AppIdle
    /\ dbInstance = NULL
    /\ tables = (N_users :> { UserRow(1, Alice, Alice) }) @@ (N_notes :> {})
    /\ NoTasks
    /\ pc = "idle"
    /\ call = NoCall /\ before = tables /\ issued = <<>> /\ result = NotCalled /\ twin = <<>>

InitDatabaseCall == \E c \in Callers : InitCall(c)
OpenResolves == \E c \in Callers : InitOpened(c)
OpenRejects == \E c \in Callers : InitOpenFailed(c)
PragmaResolves == \E c \in Callers : InitPragmaDone(c)
PragmaRejects == \E c \in Callers : InitPragmaFailed(c)
CloseDatabaseCall == \E c \in Callers : CloseCall(c)
CloseResolves == \E c \in Callers : CloseDone(c)
EmptyTransactionCall == \E c \in Callers : TxCall(c, <<>>)
CommitStep == \E c \in Callers : TxCommit(c)
RollbackStep == \E c \in Callers : TxRollback(c)

LifeNext ==
    \/ InitDatabaseCall
    \/ OpenResolves
    \/ OpenRejects
    \/ PragmaResolves
    \/ PragmaRejects
    \/ CloseDatabaseCall
    \/ CloseResolves
    \/ GetDatabaseCall
    \/ OperationCall
    \/ EmptyTransactionCall
    \/ CommitStep
    \/ RollbackStep

SpecLife == LifeInit /\ [][LifeNext]_vars

----------------------------------------------------------------------------
(* SpecTx: on an initialized database the callers run transactions, and    *)
(* insert rows outside of them, in every interleaving.  Nothing deletes.   *)

TxInit ==
    /\ idName = <<>>
    /\ idOutcome = [k \in Kinds |-> NotCalled]
    /\ AppIdle
    /\ dbInstance = 1
    /\ tables = (N_users :> {}) @@ (N_notes :> {})
    /\ opened = 1 /\ closed = {}
    /\ inTx = FALSE /\ snapshot = tables
    /\ tasks = [c \in Callers |-> Idle]
    /\ ops = 0
    /\ window = [opens |-> 0, handles |-> {}, ready |-> {1}]
    /\ outside = {}
    /\ log = <<>>
    /\ pc = "idle"
    /\ call = NoCall /\ before = tables /\ issued = <<>> /\ result = NotCalled /\ twin = <<>>

TransactionCall == \E c \in Callers, script \in Scripts : TxCall(c, script)
CallbackStep == \E c \in Callers : TxStep(c)

\* An insert outside any transaction callback, awaited by its caller: a row of
\* users marked with the number of the call, or a row of a table that does not
\* exist.  outside collects the numbers of the inserts that succeeded.
OutsideInsert ==
    /\ \E c \in Callers : CanStart(c)
    /\ ops' = ops + 1
    /\ \E table \in {N_users, N_Table1} :
          LET data == RowOf(ops, 0)
              p == insert(dbInstance, table, data)
          IN  /\ Call([op |-> "insert", db |-> dbInstance, table |-> table, data |-> data], p, p)
              /\ outside' = IF result'.status = "ok" THEN outside \cup {ops} ELSE outside
    /\ UNCHANGED <<opened, closed, tasks, window, log, inTx, snapshot, identVars, appVars, pc>>

TxNext ==
    \/ TransactionCall
    \/ CallbackStep
    \/ CommitStep
    \/ RollbackStep
    \/ OutsideInsert

SpecTx == TxInit /\ [][TxNext]_vars

----------------------------------------------------------------------------
(* SpecSeq: on an initialized database one caller makes calls one after the *)
(* other, awaiting each; log keeps every call with what it settled with.    *)

MaxCalls == 3

SeqTables == {N_users, N_notes}
SeqIds == {IntV(1), IntV(2)}
SeqRecords ==
    { <<[k |-> N_name, v |-> Alice], [k |-> N_age, v |-> IntV(30)]>>,
      <<[k |-> N_name, v |-> BoolV(TRUE)]>> }

SeqInit ==
    /\ idName = <<>>
    /\ idOutcome = [k \in Kinds |-> NotCalled]
    /\ AppIdle
    /\ dbInstance = 1
    /\ tables = (N_users :> {}) @@ (N_notes :> { NoteRow(1, Alice) })
    /\ opened = 1 /\ closed = {}
    /\ inTx = FALSE /\ snapshot = tables
    /\ tasks = [c \in Callers |-> Idle]
    /\ ops = 0
    /\ window = [opens |-> 0, handles |-> {}, ready |-> {1}]
    /\ outside = {}
    /\ log = <<>>
    /\ pc = "idle"
    /\ call = NoCall /\ before = tables /\ issued = <<>> /\ result = NotCalled /\ twin = <<>>

SeqCall(req, p) ==
    /\ Len(log) < MaxCalls
    /\ Call(req, p, p)
    /\ log' = Append(log, [call |-> req, result |-> result'])
    /\ UNCHANGED <<opened, closed, tasks, ops, window, outside, inTx, snapshot, identVars, appVars, pc>>

SeqInsert ==
    \E table \in SeqTables, data \in SeqRecords :
       SeqCall([op |-> "insert", table |-> table, data |-> data],
               insert(dbInstance, table, data))

SeqFindById ==
    \E table \in SeqTables, id \in SeqIds :
       SeqCall([op |-> "findById", table |-> table, id |-> id],
               findById(dbInstance, table, id))

SeqDeleteById ==
    \E table \in SeqTables, id \in SeqIds :
       SeqCall([op |-> "deleteById", table |-> table, id |-> id],
               deleteById(dbInstance, table, id))

SeqClearTable ==
    \E table \in SeqTables :
       SeqCall([op |-> "clearTable", table |-> table], clearTable(dbInstance, table))

SeqCount ==
    \E table \in SeqTables :
       SeqCall([op |-> "count", table |-> table, column |-> Absent, whereValue |-> Undefined],
               count(dbInstance, table, Absent, Undefined))

SeqTableExists ==
    \E table \in SeqTables :
       SeqCall([op |-> "tableExists", table |-> table], tableExists(dbInstance, table))

SeqNext ==
    \/ SeqInsert
    \/ SeqFindById
    \/ SeqDeleteById
    \/ SeqClearTable
    \/ SeqCount
    \/ SeqTableExists

SpecSeq == SeqInit /\ [][SeqNext]_vars

----------------------------------------------------------------------------
(* The subscription store (src/unnamed/part_004) over the RevenueCat service *)
(* (src/src/services/api.service.ts).  The store is one object; set(partial) *)
(* replaces the named fields in one step.  An action runs up to its await    *)
(* in the step that calls it and resumes, in a later step, when the SDK's    *)
(* promise settles: with any customer info, or with an error.  The SDK calls *)
(* a registered customer-info listener whenever it likes.                   *)

\* customerInfo, as far as the store reads it: entitlements.active[ENTITLEMENT_ID]
\* is undefined, or an entitlement with its product and expiration date
NotEntitled == [t |-> "info", active |-> FALSE]
Entitled(productIdentifier, expirationDate) ==
    [t |-> "info", active |-> TRUE, productIdentifier |-> productIdentifier,
     expirationDate |-> expirationDate]

\* the customer infos the SDK answers with: no entitlement, or one for the
\* product pro_monthly, pro_yearly, Pro_Annual, pro_LIFETIME or pro_weekly
CustomerInfos ==
    LET date == [t |-> "date", v |-> 2030]
    IN  { NotEntitled,
          Entitled(<<"p","r","o","_","m","o","n","t","h","l","y">>, date),
          Entitled(<<"p","r","o","_","y","e","a","r","l","y">>, date),
          Entitled(<<"P","r","o","_","A","n","n","u","a","l">>, date),
          Entitled(<<"p","r","o","_","L","I","F","E","T","I","M","E">>, NullV),
          Entitled(<<"p","r","o","_","w","e","e","k","l","y">>, date) }

\* String.prototype.includes
includes(s, w) ==
    \E i \in 0..(Len(s) - Len(w)) : SubSeq(s, i + 1, i + Len(w)) = w

determinePlan(customerInfo) ==
    IF ~customerInfo.active THEN "free"
    ELSE LET productId == toLowerCase(customerInfo.productIdentifier)
         IN  IF includes(productId, <<"l","i","f","e","t","i","m","e">>) THEN "lifetime"
             ELSE IF \/ includes(productId, <<"y","e","a","r">>)
                     \/ includes(productId, <<"a","n","n","u","a","l">>)
                  THEN "yearly"
             ELSE IF includes(productId, <<"m","o","n","t","h">>) THEN "monthly"
             ELSE "free"

\* typeof customerInfo.entitlements.active[ENTITLEMENT_ID] !== 'undefined'
HasEntitlement(customerInfo) == customerInfo.active

\* expiration ? new Date(expiration) : null
ExpirationOf(customerInfo) ==
    IF customerInfo.active /\ customerInfo.expirationDate # NullV
    THEN customerInfo.expirationDate ELSE NullV

\* What the SDK's promise settles with: customer info, or an error thrown.
SdkResolved(customerInfo) == [ok |-> TRUE, customerInfo |-> customerInfo]
SdkRejected(message, userCancelled) ==
    [ok |-> FALSE, message |-> message, userCancelled |-> userCancelled]

SdkOutcomes ==
    { SdkResolved(i) : i \in CustomerInfos } \cup { SdkRejected("E", FALSE) }

\* a purchase is also cancelled by the user, or fails without a message
PurchaseOutcomes ==
    SdkOutcomes \cup { SdkRejected("cancelled by the user", TRUE), SdkRejected("", FALSE) }

\* a || b for strings
OrElse(a, b) == IF a = "" THEN b ELSE a

\* set({ isLoading: true, error: null })
Loading(state) == [state EXCEPT !.isLoading = TRUE, !.error = NullV]

\* set({ isPremium, currentPlan: plan, expirationDate, customerInfo }) of the
\* customer-info listener
ListenerSet(state, customerInfo) ==
    [state EXCEPT !.isPremium = HasEntitlement(customerInfo),
                  !.currentPlan = determinePlan(customerInfo),
                  !.expirationDate = ExpirationOf(customerInfo),
                  !.customerInfo = customerInfo]

\* the same with isLoading: false, of checkSubscriptionStatus and identifyUser
StatusSet(state, customerInfo) ==
    [ListenerSet(state, customerInfo) EXCEPT !.isLoading = FALSE]

\* initialize, after getCustomerInfo
InitializedSet(state, customerInfo) ==
    [StatusSet(state, customerInfo) EXCEPT !.isInitialized = TRUE]

\* Mutant: a failed initialization is not marked as initialized.
InitializeFailedSet_Retries(state, message) ==
    [state EXCEPT !.error = TextV(message), !.isLoading = FALSE]

\* initialize, catch: marked as initialized even on error
InitializeFailedSet(state, message) ==
    [state EXCEPT !.isInitialized = TRUE, !.error = TextV(message), !.isLoading = FALSE]

\* the catch blocks of the other actions
FailedSet(state, message) ==
    [state EXCEPT !.error = TextV(message), !.isLoading = FALSE]

\* purchasePackage, success
PurchasedSet(state, customerInfo) ==
    [state EXCEPT !.isPremium = TRUE,
                  !.currentPlan = determinePlan(customerInfo),
                  !.expirationDate = ExpirationOf(customerInfo),
                  !.customerInfo = customerInfo,
                  !.isLoading = FALSE]

\* restorePurchases, success
RestoredSet(state, isPremium, customerInfo) ==
    [state EXCEPT !.isPremium = isPremium,
                  !.currentPlan = determinePlan(customerInfo),
                  !.expirationDate = ExpirationOf(customerInfo),
                  !.customerInfo = customerInfo,
                  !.isLoading = FALSE]

\* Mutant: logOutUser keeps the plan.
LoggedOutSet_KeepsPlan(state, customerInfo) ==
    [state EXCEPT !.isPremium = HasEntitlement(customerInfo),
                  !.customerInfo = customerInfo,
                  !.isLoading = FALSE]

\* logOutUser: currentPlan: isPremium ? get().currentPlan : 'free'
LoggedOutSet(state, customerInfo) ==
    [state EXCEPT !.isPremium = HasEntitlement(customerInfo),
                  !.currentPlan = IF HasEntitlement(customerInfo) THEN state.currentPlan
                                  ELSE "free",
                  !.customerInfo = customerInfo,
                  !.isLoading = FALSE]

\* reset
ResetSet(state) ==
    [state EXCEPT !.isPremium = FALSE, !.currentPlan = "free", !.expirationDate = NullV,
                  !.isLoading = FALSE, !.error = NullV, !.customerInfo = NullV]

\* RevenueCatService.purchasePackage: what it returns for what the SDK did
PurchaseResult(outcome) ==
    IF outcome.ok
    THEN [success |-> HasEntitlement(outcome.customerInfo), hasInfo |-> TRUE,
          customerInfo |-> outcome.customerInfo, error |-> ""]
    ELSE IF outcome.userCancelled
    THEN [success |-> FALSE, hasInfo |-> FALSE, error |-> "cancelled"]
    ELSE [success |-> FALSE, hasInfo |-> FALSE,
          error |-> OrElse(outcome.message, "Purchase failed")]

\* RevenueCatService.restorePurchases
RestoreResult(outcome) ==
    IF outcome.ok
    THEN [success |-> TRUE, isPremium |-> HasEntitlement(outcome.customerInfo),
          hasInfo |-> TRUE, customerInfo |-> outcome.customerInfo, error |-> ""]
    ELSE [success |-> FALSE, isPremium |-> FALSE, hasInfo |-> FALSE,
          error |-> OrElse(outcome.message, "Restore failed")]

\* everything but the callers' tasks, the call counter, the last call and the
\* two stores with their services
sqliteVars == <<idName, idOutcome, dbInstance, tables, opened, closed, inTx, snapshot, window,
                outside, log, pc, before, issued, result, twin>>

\* an action of a store, up to its first await
Begin(c, op) ==
    /\ CanStart(c)
    /\ ops' = ops + 1
    /\ call' = [op |-> op, n |-> ops + 1]

\* initialize: nothing when the store is initialized; else loading, and
\* RevenueCatService.initialize, which configures the SDK unless it has
SubInitializeCall ==
    \E c \in Callers :
    /\ Begin(c, "initialize")
    /\ IF sub.isInitialized
       THEN /\ Settle(c, Resolved("initialize", Undefined))
            /\ UNCHANGED <<sub, rc>>
       ELSE /\ sub' = Loading(sub)
            /\ IF rc.isInitialized
               THEN /\ Settle(c, [op |-> "initialize", pc |-> "configured"])
                    /\ rc' = rc
               ELSE /\ Settle(c, [op |-> "initialize", pc |-> "configuring"])
                    /\ rc' = [rc EXCEPT !.configures = @ + 1]
    /\ UNCHANGED <<sqliteVars, auth, supa>>

\* Purchases.configure resolves: the service is initialized
SubConfigured ==
    \E c \in Callers :
    /\ tasks[c].op = "initialize" /\ tasks[c].pc = "configuring"
    /\ rc' = [rc EXCEPT !.isInitialized = TRUE]
    /\ Settle(c, [op |-> "initialize", pc |-> "configured"])
    /\ UNCHANGED <<sqliteVars, ops, call, sub, auth, supa>>

\* Purchases.configure rejects: the service throws it again, initialize catches
SubConfigureFailed ==
    \E c \in Callers :
    /\ tasks[c].op = "initialize" /\ tasks[c].pc = "configuring"
    /\ sub' = InitializeFailedSet(sub, "E")
    /\ Settle(c, Resolved("initialize", Undefined))
    /\ UNCHANGED <<sqliteVars, ops, call, rc, auth, supa>>

\* the listener is registered and getCustomerInfo called
SubListen ==
    \E c \in Callers :
    /\ tasks[c].op = "initialize" /\ tasks[c].pc = "configured"
    /\ rc' = [rc EXCEPT !.listeners = @ + 1]
    /\ Settle(c, [op |-> "initialize", pc |-> "info"])
    /\ UNCHANGED <<sqliteVars, ops, call, sub, auth, supa>>

SubInitialized ==
    \E c \in Callers :
    /\ tasks[c].op = "initialize" /\ tasks[c].pc = "info"
    /\ \E outcome \in SdkOutcomes :
          sub' = IF outcome.ok THEN InitializedSet(sub, outcome.customerInfo)
                 ELSE InitializeFailedSet(sub, outcome.message)
    /\ Settle(c, Resolved("initialize", Undefined))
    /\ UNCHANGED <<sqliteVars, ops, call, rc, auth, supa>>

\* the SDK calls a registered listener
CustomerInfoUpdate ==
    /\ rc.listeners > 0
    /\ \E customerInfo \in CustomerInfos : sub' = ListenerSet(sub, customerInfo)
    /\ UNCHANGED <<sqliteVars, tasks, ops, call, rc, auth, supa>>

\* checkSubscriptionStatus, purchasePackage, restorePurchases, identifyUser
\* and logOutUser up to the await of the service
SubActionCall ==
    \E c \in Callers :
    \E op \in {"checkSubscriptionStatus", "purchasePackage", "restorePurchases",
                "identifyUser", "logOutUser"} :
       /\ Begin(c, op)
       /\ sub' = Loading(sub)
       /\ Settle(c, [op |-> op, pc |-> "sdk"])
       /\ UNCHANGED <<sqliteVars, rc, auth, supa>>

SubStatusDone ==
    \E c \in Callers :
    /\ tasks[c].op \in {"checkSubscriptionStatus", "identifyUser"} /\ tasks[c].pc = "sdk"
    /\ \E outcome \in SdkOutcomes :
          sub' = IF outcome.ok THEN StatusSet(sub, outcome.customerInfo)
                 ELSE FailedSet(sub, outcome.message)
    /\ Settle(c, Resolved(tasks[c].op, Undefined))
    /\ UNCHANGED <<sqliteVars, ops, call, rc, auth, supa>>

SubPurchaseDone ==
    \E c \in Callers :
    /\ tasks[c].op = "purchasePackage" /\ tasks[c].pc = "sdk"
    /\ \E outcome \in PurchaseOutcomes :
          LET r == PurchaseResult(outcome)
          IN  IF r.success /\ r.hasInfo
              THEN /\ sub' = PurchasedSet(sub, r.customerInfo)
                   /\ Settle(c, Resolved("purchasePackage", BoolV(TRUE)))
              ELSE /\ sub' = IF r.error = "cancelled" THEN [sub EXCEPT !.isLoading = FALSE]
                             ELSE FailedSet(sub, OrElse(r.error, "Purchase failed"))
                   /\ Settle(c, Resolved("purchasePackage", BoolV(FALSE)))
    /\ UNCHANGED <<sqliteVars, ops, call, rc, auth, supa>>

SubRestoreDone ==
    \E c \in Callers :
    /\ tasks[c].op = "restorePurchases" /\ tasks[c].pc = "sdk"
    /\ \E outcome \in SdkOutcomes :
          LET r == RestoreResult(outcome)
          IN  IF r.success /\ r.hasInfo
              THEN /\ sub' = RestoredSet(sub, r.isPremium, r.customerInfo)
                   /\ Settle(c, Resolved("restorePurchases", BoolV(r.isPremium)))
              ELSE /\ sub' = FailedSet(sub, OrElse(r.error, "No purchases to restore"))
                   /\ Settle(c, Resolved("restorePurchases", BoolV(FALSE)))
    /\ UNCHANGED <<sqliteVars, ops, call, rc, auth, supa>>

SubLogOutDone ==
    \E c \in Callers :
    /\ tasks[c].op = "logOutUser" /\ tasks[c].pc = "sdk"
    /\ \E outcome \in SdkOutcomes :
          sub' = IF outcome.ok THEN LoggedOutSet(sub, outcome.customerInfo)
                 ELSE FailedSet(sub, outcome.message)
    /\ Settle(c, Resolved("logOutUser", Undefined))
    /\ UNCHANGED <<sqliteVars, ops, call, rc, auth, supa>>

\* reset, setLoading and setError are synchronous
SubReset ==
    /\ ops < MaxOps
    /\ ops' = ops + 1
    /\ call' = [op |-> "reset", n |-> ops + 1]
    /\ sub' = ResetSet(sub)
    /\ UNCHANGED <<sqliteVars, tasks, rc, auth, supa>>

SubSetLoading ==
    /\ ops < MaxOps
    /\ ops' = ops + 1
    /\ call' = [op |-> "setLoading", n |-> ops + 1]
    /\ \E isLoading \in BOOLEAN : sub' = [sub EXCEPT !.isLoading = isLoading]
    /\ UNCHANGED <<sqliteVars, tasks, rc, auth, supa>>

SubSetError ==
    /\ ops < MaxOps
    /\ ops' = ops + 1
    /\ call' = [op |-> "setError", n |-> ops + 1]
    /\ \E error \in {NullV, TextV("E")} : sub' = [sub EXCEPT !.error = error]
    /\ UNCHANGED <<sqliteVars, tasks, rc, auth, supa>>

----------------------------------------------------------------------------
(* SpecSub: the callers use the subscription store in every interleaving.   *)
(* The store starts as created, or with isPremium and currentPlan as the    *)
(* persist middleware saved them in an earlier run.                          *)

SubInit ==
    /\ idName = <<>>
    /\ idOutcome = [k \in Kinds |-> NotCalled]
    /\ dbInstance = NULL
    /\ tables = [t \in DOMAIN Schema |-> {}]
    /\ NoTasks
    /\ pc = "idle"
    /\ call = NoCall /\ before = tables /\ issued = <<>> /\ result = NotCalled /\ twin = <<>>
    /\ \E p \in { [isPremium |-> FALSE, currentPlan |-> "free"],
                   [isPremium |-> TRUE, currentPlan |-> "monthly"],
                   [isPremium |-> TRUE, currentPlan |-> "free"] } :
          sub = [SubscriptionCreated EXCEPT !.isPremium = p.isPremium,
                                            !.currentPlan = p.currentPlan]
    /\ rc = [isInitialized |-> FALSE, configures |-> 0, listeners |-> 0]
    /\ auth = AuthCreated
    /\ supa = [configured |-> TRUE, appStateSubscription |-> FALSE, setups |-> 0,
               listeners |-> 0]


SubNext ==
    \/ SubInitializeCall
    \/ SubConfigured
    \/ SubConfigureFailed
    \/ SubListen
    \/ SubInitialized
    \/ CustomerInfoUpdate
    \/ SubActionCall
    \/ SubStatusDone
    \/ SubPurchaseDone
    \/ SubRestoreDone
    \/ SubLogOutDone
    \/ SubReset
    \/ SubSetLoading
    \/ SubSetError

SpecSub == SubInit /\ [][SubNext]_vars

----------------------------------------------------------------------------
(* The auth store (src/src/stores/authStore.ts) over the Supabase client and *)
(* the auto-refresh helpers (src/src/services/supabase.ts).  As in the       *)
(* subscription store, an action runs up to its await in the step that calls *)
(* it and resumes when the backend's promise settles: with data, with an     *)
(* error in the answer, or with an exception thrown.                        *)

UserV == [t |-> "user", id |-> "u1"]
SessionV == [t |-> "session", user |-> UserV]

\* session?.user ?? null
UserOf(session) == IF session = NullV THEN NullV ELSE session.user

\* { data: { user, session }, error: null }, { data, error } and a throw
Data(user, session) == [kind |-> "data", user |-> user, session |-> session]
Failure(kind, message) == [kind |-> kind, message |-> message]

\* What the backend answers to a call: signUp answers a user with a session
\* or a user still to be confirmed; getSession a session or none; the calls
\* that answer only { error } are given no data.
Answers(method) ==
    CASE method = "signUp" ->
            { Data(UserV, SessionV), Data(UserV, NullV), Failure("error", "E"), Failure("thrown", "E") }
      [] method = "signInWithPassword" ->
            { Data(UserV, SessionV), Failure("error", "E"), Failure("thrown", "E") }
      [] method = "getSession" ->
            { Data(UserV, SessionV), Data(NullV, NullV), Failure("error", "E"), Failure("thrown", "E") }
      [] method = "getUser" -> { Data(UserV, NullV), Failure("thrown", "E") }
      [] OTHER -> { Data(NullV, NullV), Failure("error", "E"), Failure("thrown", "E") }

\* set({ error: message })
WithError(state, message) == [state EXCEPT !.error = TextV(message)]

\* set({ user, session })
WithSession(state, user, session) == [state EXCEPT !.user = user, !.session = session]

\* finally { set({ isLoading: false }) }
Finally(state) == [state EXCEPT !.isLoading = FALSE]

\* initialize: set({ isInitialized: true, isLoading: false })
InitFinally(state) == [state EXCEPT !.isInitialized = TRUE, !.isLoading = FALSE]

\* setupAutoRefresh: one invocation; it subscribes unless subscribed
setupAutoRefresh(s) ==
    IF s.appStateSubscription THEN [s EXCEPT !.setups = @ + 1]
    ELSE [s EXCEPT !.setups = @ + 1, !.appStateSubscription = TRUE]

cleanupAutoRefresh(s) == [s EXCEPT !.appStateSubscription = FALSE]

\* supabase.auth.onAuthStateChange(callback)
onAuthStateChange(s) == [s EXCEPT !.listeners = @ + 1]

\* initialize up to the await of getSession
AuthInitializeCall ==
    \E c \in Callers :
    /\ Begin(c, "initialize")
    /\ IF auth.isInitialized
       THEN /\ Settle(c, Resolved("initialize", Undefined))
            /\ UNCHANGED <<auth, supa>>
       ELSE IF ~supa.configured
       THEN /\ auth' = InitFinally(InitFinally(Loading(auth)))
            /\ Settle(c, Resolved("initialize", Undefined))
            /\ supa' = supa
       ELSE /\ auth' = Loading(auth)
            /\ supa' = setupAutoRefresh(supa)
            /\ Settle(c, [op |-> "initialize", pc |-> "session"])
    /\ UNCHANGED <<sqliteVars, sub, rc>>

\* getSession settles: the session or the error is stored and the listener
\* registered; a throw skips both; finally
AuthInitialized ==
    \E c \in Callers :
    /\ tasks[c].op = "initialize" /\ tasks[c].pc = "session"
    /\ \E outcome \in Answers("getSession") :
          CASE outcome.kind = "data" ->
                  /\ auth' = InitFinally(WithSession(auth, UserOf(outcome.session),
                                                     outcome.session))
                  /\ supa' = onAuthStateChange(supa)
            [] outcome.kind = "error" ->
                  /\ auth' = InitFinally(WithError(auth, outcome.message))
                  /\ supa' = onAuthStateChange(supa)
            [] outcome.kind = "thrown" ->
                  /\ auth' = InitFinally(WithError(auth, outcome.message))
                  /\ supa' = supa
    /\ Settle(c, Resolved("initialize", Undefined))
    /\ UNCHANGED <<sqliteVars, ops, call, sub, rc>>

\* the client calls a registered auth-state-change listener
AuthStateChange ==
    /\ supa.listeners > 0
    /\ \E e \in { [event |-> "SIGNED_IN", session |-> SessionV],
                   [event |-> "TOKEN_REFRESHED", session |-> SessionV],
                   [event |-> "SIGNED_OUT", session |-> NullV] } :
          /\ auth' = WithSession(auth, UserOf(e.session), e.session)
          /\ supa' = IF e.event = "SIGNED_OUT" THEN cleanupAutoRefresh(supa) ELSE supa
    /\ UNCHANGED <<sqliteVars, tasks, ops, call, sub, rc>>

\* signUp, signIn, signInWithOAuth, signOut, resetPassword, updatePassword and
\* updateProfile up to the await of the backend
AuthActions ==
    {"signUp", "signIn", "signInWithOAuth", "signOut", "resetPassword", "updatePassword",
     "updateProfile"}

AuthActionCall ==
    \E c \in Callers :
    \E op \in AuthActions :
       /\ Begin(c, op)
       /\ auth' = Loading(auth)
       /\ Settle(c, [op |-> op, pc |-> "backend"])
       /\ UNCHANGED <<sqliteVars, sub, rc, supa>>

\* the catch and the error branches, with the finally
AuthFailed(c, outcome) ==
    /\ auth' = Finally(WithError(auth, outcome.message))
    /\ Settle(c, Resolved(tasks[c].op, BoolV(FALSE)))

\* signUp and signIn after the backend's answer; a session is stored and
\* initializeAppContext awaited
AuthSignedIn ==
    \E c \in Callers :
    /\ tasks[c].op \in {"signUp", "signIn"} /\ tasks[c].pc = "backend"
    /\ \E outcome \in Answers(IF tasks[c].op = "signUp" THEN "signUp"
                            ELSE "signInWithPassword") :
          IF outcome.kind # "data" THEN AuthFailed(c, outcome)
          ELSE IF tasks[c].op = "signUp" /\ outcome.user # NullV /\ outcome.session = NullV
          THEN /\ auth' = Finally(WithError(auth,
                             "Please check your email to confirm your account."))
               /\ Settle(c, Resolved("signUp", BoolV(TRUE)))
          ELSE /\ auth' = WithSession(auth, outcome.user, outcome.session)
               /\ Settle(c, [op |-> tasks[c].op, pc |-> "context"])
    /\ UNCHANGED <<sqliteVars, ops, call, sub, rc, supa>>

\* initializeAppContext catches its own errors: it resolves
AuthContextDone ==
    \E c \in Callers :
    /\ tasks[c].op \in {"signUp", "signIn"} /\ tasks[c].pc = "context"
    /\ auth' = Finally(auth)
    /\ Settle(c, Resolved(tasks[c].op, BoolV(TRUE)))
    /\ UNCHANGED <<sqliteVars, ops, call, sub, rc, supa>>

\* signInWithOAuth, resetPassword and updatePassword
AuthPlainDone ==
    \E c \in Callers :
    /\ tasks[c].op \in {"signInWithOAuth", "resetPassword", "updatePassword"}
    /\ tasks[c].pc = "backend"
    /\ \E outcome \in Answers(tasks[c].op) :
          IF outcome.kind # "data" THEN AuthFailed(c, outcome)
          ELSE /\ auth' = Finally(auth)
               /\ Settle(c, Resolved(tasks[c].op, BoolV(TRUE)))
    /\ UNCHANGED <<sqliteVars, ops, call, sub, rc, supa>>

\* signOut: an error in the answer is stored and the user signed out all the
\* same; a throw skips the sign-out
AuthSignedOut ==
    \E c \in Callers :
    /\ tasks[c].op = "signOut" /\ tasks[c].pc = "backend"
    /\ \E outcome \in Answers(tasks[c].op) :
          CASE outcome.kind = "data" ->
                  /\ auth' = Finally(WithSession(auth, NullV, NullV))
                  /\ supa' = cleanupAutoRefresh(supa)
            [] outcome.kind = "error" ->
                  /\ auth' = Finally(WithSession(WithError(auth, outcome.message),
                                                 NullV, NullV))
                  /\ supa' = cleanupAutoRefresh(supa)
            [] outcome.kind = "thrown" ->
                  /\ auth' = Finally(WithError(auth, outcome.message))
                  /\ supa' = supa
    /\ Settle(c, Resolved("signOut", Undefined))
    /\ UNCHANGED <<sqliteVars, ops, call, sub, rc>>

\* updateProfile after updateUser: getUser is awaited next
AuthProfileUpdated ==
    \E c \in Callers :
    /\ tasks[c].op = "updateProfile" /\ tasks[c].pc = "backend"
    /\ \E outcome \in Answers(tasks[c].op) :
          IF outcome.kind # "data" THEN AuthFailed(c, outcome)
          ELSE /\ auth' = auth
               /\ Settle(c, [op |-> "updateProfile", pc |-> "getUser"])
    /\ UNCHANGED <<sqliteVars, ops, call, sub, rc, supa>>

AuthProfileRefreshed ==
    \E c \in Callers :
    /\ tasks[c].op = "updateProfile" /\ tasks[c].pc = "getUser"
    /\ \E outcome \in Answers("getUser") :
          IF outcome.kind # "data" THEN AuthFailed(c, outcome)
          ELSE /\ auth' = Finally([auth EXCEPT !.user = outcome.user])
               /\ Settle(c, Resolved("updateProfile", BoolV(TRUE)))
    /\ UNCHANGED <<sqliteVars, ops, call, sub, rc, supa>>

\* clearError is synchronous
AuthClearError ==
    /\ ops < MaxOps
    /\ ops' = ops + 1
    /\ call' = [op |-> "clearError", n |-> ops + 1]
    /\ auth' = [auth EXCEPT !.error = NullV]
    /\ UNCHANGED <<sqliteVars, tasks, sub, rc, supa>>

----------------------------------------------------------------------------
(* SpecAuth: the callers use the auth store in every interleaving; the      *)
(* build has the Supabase URL and key, or runs in demo mode without them.   *)

AuthInit ==
    /\ idName = <<>>
    /\ idOutcome = [k \in Kinds |-> NotCalled]
    /\ dbInstance = NULL
    /\ tables = [t \in DOMAIN Schema |-> {}]
    /\ NoTasks
    /\ pc = "idle"
    /\ call = NoCall /\ before = tables /\ issued = <<>> /\ result = NotCalled /\ twin = <<>>
    /\ sub = SubscriptionCreated
    /\ rc = [isInitialized |-> FALSE, configures |-> 0, listeners |-> 0]
    /\ auth = AuthCreated
    /\ \E configured \in BOOLEAN :
          supa = [configured |-> configured, appStateSubscription |-> FALSE, setups |-> 0,
                  listeners |-> 0]


AuthNext ==
    \/ AuthInitializeCall
    \/ AuthInitialized
    \/ AuthStateChange
    \/ AuthActionCall
    \/ AuthSignedIn
    \/ AuthContextDone
    \/ AuthPlainDone
    \/ AuthSignedOut
    \/ AuthProfileUpdated
    \/ AuthProfileRefreshed
    \/ AuthClearError

SpecAuth == AuthInit /\ [][AuthNext]_vars

----------------------------------------------------------------------------
(* C1 *)

\* s and w are the same word up to the case of ASCII letters
EqualsIgnoreCase(s, w) ==
    /\ Len(s) = Len(w)
    /\ \A i \in DOMAIN s :
          \/ s[i] = w[i]
          \/ \E j \in DOMAIN LowerLetters :
                {s[i], w[i]} = {LowerLetters[j], UpperLetters[j]}

WellFormedIdentifier(s) ==
    /\ Len(s) >= 1
    /\ IsIdentStart(s[1])
    /\ \A i \in 2..Len(s) : IsIdentPart(s[i])
    /\ \A w \in RESERVED_WORDS : ~EqualsIgnoreCase(s, w)

\* C1: validateIdentifier(name, kind) succeeds iff name matches
\* ^[A-Za-z_][A-Za-z0-9_]*$ and is not, in any spelling of upper and lower case,
\* one of the 14 reserved words; every other string fails with an error; the
\* outcome is the same for kind = table and kind = column.
C1_ValidateIff ==
    /\ \A k \in Kinds :
          idOutcome[k] # NotCalled =>
             /\ IsOk(idOutcome[k]) <=> WellFormedIdentifier(idName)
             /\ ~IsOk(idOutcome[k]) => idOutcome[k].status = "error"
    /\ (idOutcome["table"] # NotCalled /\ idOutcome["column"] # NotCalled)
          => idOutcome["table"].status = idOutcome["column"].status

\* An upper-case spelling of a reserved word has been rejected for both kinds.
C1_Witness ==
    /\ idName = N_DROP
    /\ idOutcome["table"] # NotCalled /\ idOutcome["column"] # NotCalled
    /\ ~IsOk(idOutcome["table"]) /\ ~IsOk(idOutcome["column"])

----------------------------------------------------------------------------
(* What a call supplied, and what a statement text holds *)

HasField(r, f) == f \in DOMAIN r

\* the table and column names the caller supplied
SuppliedNames(c) ==
    (IF HasField(c, "table") THEN {c.table} ELSE {})
    \cup (IF HasField(c, "data") THEN Range(ObjectKeys(c.data)) ELSE {})
    \cup (IF HasField(c, "conditions") THEN Range(ObjectKeys(c.conditions)) ELSE {})
    \cup (IF HasField(c, "whereColumn") THEN {c.whereColumn} ELSE {})

\* the data values the caller supplied: update-set or record values first, then
\* the id, the where-value or the condition values
SuppliedValues(c) ==
    (IF HasField(c, "data") THEN ObjectValues(c.data) ELSE <<>>)
    \o (IF HasField(c, "id") THEN <<c.id>> ELSE <<>>)
    \o (IF HasField(c, "whereValue") THEN <<c.whereValue>> ELSE <<>>)
    \o (IF HasField(c, "conditions") THEN ObjectValues(c.conditions) ELSE <<>>)

ValueOf(object, key) == object[CHOOSE i \in DOMAIN object : object[i].k = key].v

\* the quoted identifiers of a text, in order
QuotedNames(sql) ==
    LET quoted == SelectSeq(sql, IsQ) IN [i \in DOMAIN quoted |-> quoted[i].quoted]

HasPlaceholder(tok) ==
    "kw" \in DOMAIN tok /\ tok.kw \in {"?", " = ?", " LIMIT ?", " OFFSET ?",
        "SELECT COUNT(*) as count FROM sqlite_master WHERE type='table' AND name=?"}

\* the number of ? in a text
PlaceholderCount(sql) == Len(SelectSeq(sql, HasPlaceholder))

Done == pc = "done"

----------------------------------------------------------------------------
(* C2 *)

C2Operations ==
    {"insert", "updateById", "updateWhere", "updateWhereAnd", "deleteById", "deleteWhere",
     "deleteWhereAnd", "findById", "findBy", "findOneBy", "findWhereAnd", "findAll",
     "countWhereAnd", "clearTable", "tableExists"}

HasInvalidName(c) == \E n \in SuppliedNames(c) : ~WellFormedIdentifier(n)

\* C2: a call of a builder operation whose table name or any supplied column
\* name (a key of the record, a key of the condition set, the whereColumn), at
\* any position, is not a valid identifier fails, hands no statement to the
\* store and leaves the store as it was.
C2_InvalidNameIssuesNothing ==
    (Done /\ call.op \in C2Operations /\ HasInvalidName(call))
        => /\ result.status = "error"
           /\ issued = <<>>
           /\ tables = before

\* updateWhereAnd on an initialized database and a table with rows, every name
\* valid but the last condition key: it failed with the identifier error.
C2_Witness ==
    /\ Done /\ call.op = "updateWhereAnd" /\ dbInstance # NULL
    /\ call.table = N_users /\ before[N_users] # {}
    /\ Len(call.data) = 1 /\ call.data[1].k = N_name
    /\ Len(call.conditions) = 2
    /\ call.conditions[1].k = N_age /\ call.conditions[2].k = N_DROP
    /\ result.status = "error" /\ result.error = "ReservedKeyword"
    /\ issued = <<>> /\ tables = before

----------------------------------------------------------------------------
(* C3 *)

SettledTransaction(c) == tasks[c].op = "transaction" /\ tasks[c].pc = "settled"

\* C3: transaction(callback) is atomic: when the callback performed writes and
\* completed normally, all of those writes are visible after the transaction
\* has settled; when the callback threw after some writes, none of them is.
C3_TransactionAtomic ==
    \A c \in Callers :
       SettledTransaction(c) =>
          /\ tasks[c].callback = "returned" =>
                \A i \in tasks[c].wrote : Visible(tables, tasks[c].n, i)
          /\ tasks[c].callback = "threw" =>
                \A i \in tasks[c].wrote : ~Visible(tables, tasks[c].n, i)

----------------------------------------------------------------------------
(* C4 *)

\* C4: when the callback throws E, the promise of transaction rejects with that
\* same E; when the callback completes normally with value V, it resolves with V.
C4_TransactionPropagates ==
    \A c \in Callers :
       SettledTransaction(c) =>
          /\ tasks[c].callback = "threw" =>
                tasks[c].outcome = [status |-> "rejected", error |-> tasks[c].thrown]
          /\ tasks[c].callback = "returned" =>
                tasks[c].outcome = [status |-> "resolved", value |-> ReturnValue]

----------------------------------------------------------------------------
(* C5 *)

\* an insert outside any callback has just failed
OutsideFailure ==
    /\ call' # call
    /\ call'.op = "insert"
    /\ result'.status = "error"

\* C5: a write issued outside any transaction callback is visible once it has
\* completed, and stays so, also when a transaction is in flight on the shared
\* connection and later rolls back; and an outside write that fails leaves
\* the transactions in flight, and the store, as they were.
C5_OutsideWritesIndependent ==
    /\ [](\A n \in outside : Visible(tables, n, 0))
    /\ [][OutsideFailure => (tasks' = tasks /\ tables' = tables /\ inTx' = inTx)]_vars

----------------------------------------------------------------------------
(* C6 *)

\* C6: between two closeDatabase calls, the calls of initDatabase, overlapping
\* ones included, open the database at most once, and all of them resolve with
\* the same handle.
C6_InitOpensOnce ==
    /\ window.opens <= 1
    /\ Cardinality(window.handles) <= 1

----------------------------------------------------------------------------
(* C7 *)

\* there is no store handle: dbInstance is null, or the handle it holds is closed
NoHandle(db, cl) == db = NULL \/ db \in cl

\* C7: an operation called while no store handle exists (before an initDatabase
\* has produced one, and after closeDatabase until the next initDatabase) fails
\* with an error and issues no statement: the builders, executeQuery,
\* clearTable, tableExists, getDatabase and transaction, whose callback is not
\* run; and once an initDatabase has resolved, until closeDatabase is called,
\* getDatabase returns the open handle without error.
C7_NoHandleNoStatement ==
    /\ (call # NoCall /\ HasField(call, "db") /\ NoHandle(call.db, call.closed)) =>
          /\ result.status = "error"
          /\ issued = <<>>
    /\ \A c \in Callers :
          (tasks[c].op = "transaction" /\ NoHandle(tasks[c].db, tasks[c].closed)) =>
             /\ tasks[c].pc = "settled"
             /\ tasks[c].outcome.status = "rejected"
             /\ tasks[c].callback = "not run"
    /\ (call # NoCall /\ call.op = "getDatabase" /\ ~NoHandle(call.db, call.closed)) =>
          result = [status |-> "ok", value |-> call.db]
    /\ window.handles # {} =>
          /\ getDatabase(dbInstance) = [status |-> "ok", value |-> dbInstance]
          /\ dbInstance \in (1..opened) \ closed

\* The database was opened and closed again, and a deleteById called after that
\* failed with NotInitialized.
C7_Witness ==
    /\ call # NoCall /\ call.op = "deleteById"
    /\ call.db = NULL /\ call.closed # {}
    /\ result = NotInitialized /\ issued = <<>>

----------------------------------------------------------------------------
(* C8 *)

\* C8: a call issues the statement text that the same call issues with every
\* data value replaced (same operation, table and column names): the text does
\* not depend on the values, which are handed over, as they are and in order,
\* as the bound values; one call executes at most one statement, and a value
\* with SQL metacharacters is stored as it is.
C8_TextIndependentOfValues ==
    (Done /\ call.op # "executeQuery") =>
        /\ Len(issued) <= 1
        /\ Len(issued) = Len(twin)
        /\ \A i \in DOMAIN issued : issued[i].sql = twin[i].sql
        /\ \A i \in DOMAIN issued :
              call.op \notin {"count", "findAll", "tableExists", "clearTable"}
                 => issued[i].params = SuppliedValues(call)
        /\ DOMAIN tables = DOMAIN before
        /\ (call.op = "insert" /\ result.status = "ok") =>
              /\ \E row \in tables[call.table] :
                    /\ row[IdCol] = result.value
                    /\ \A i \in DOMAIN call.data : row[call.data[i].k] = call.data[i].v
                    /\ tables[call.table] = before[call.table] \cup {row}
                    /\ row \notin before[call.table]
              /\ \A t \in DOMAIN tables \ {call.table} : tables[t] = before[t]

\* An insert of a value with SQL metacharacters succeeded: the value is in the
\* new row, and the twin call, with other values, issued the same text.
C8_Witness ==
    /\ Done /\ call.op = "insert" /\ result.status = "ok"
    /\ Len(call.data) = 2 /\ call.data[1].v = Payload /\ call.data[2].v = Alice
    /\ Len(issued) = 1 /\ Len(twin) = 1
    /\ issued[1].sql = twin[1].sql /\ issued[1].params # twin[1].params
    /\ \E row \in tables[call.table] \ before[call.table] : row[call.data[1].k] = Payload

----------------------------------------------------------------------------
(* C9 *)

\* C9: insert(table, record) with n >= 1 valid columns on an initialized
\* database issues one statement that lists exactly the record's n columns, in
\* key order, and n placeholders; it binds exactly n values, the i-th being the
\* record's value for the i-th listed column.
C9_InsertBindsInColumnOrder ==
    (/\ Done /\ call.op = "insert" /\ dbInstance # NULL
     /\ Len(call.data) >= 1 /\ ~HasInvalidName(call))
        => /\ Len(issued) = 1
           /\ LET listed == Tail(QuotedNames(issued[1].sql))
                  params == issued[1].params
              IN  /\ listed = ObjectKeys(call.data)
                  /\ PlaceholderCount(issued[1].sql) = Len(call.data)
                  /\ Len(params) = Len(call.data)
                  /\ \A i \in DOMAIN listed : params[i] = ValueOf(call.data, listed[i])

\* An insert of two columns with different values was issued.
C9_Witness ==
    /\ Done /\ call.op = "insert" /\ Len(issued) = 1
    /\ Len(call.data) = 2 /\ call.data[1].v # call.data[2].v
    /\ QuotedNames(issued[1].sql) = <<N_users, N_age, N_name>>
    /\ result.status = "ok"

----------------------------------------------------------------------------
(* C10 *)

\* the quoted identifiers of the SET clause and of the WHERE clause
SetColumns(sql) ==
    QuotedNames(SubSeq(sql, PositionOf(sql, " SET ") + 1, PositionOf(sql, " WHERE ") - 1))
WhereColumns(sql) ==
    QuotedNames(SubSeq(sql, PositionOf(sql, " WHERE ") + 1, Len(sql)))

\* the value the call gives for the predicate column c
PredicateValue(c, column) ==
    CASE c.op = "updateById" -> c.id
      [] c.op = "updateWhere" -> c.whereValue
      [] c.op = "updateWhereAnd" -> ValueOf(c.conditions, column)

\* C10: the statement of updateById, updateWhere and updateWhereAnd binds the
\* update-set values in SET-clause column order, then the predicate values in
\* WHERE-clause order (the id, the whereValue, the condition values in
\* condition-column order); it binds as many values as it has placeholders.
C10_UpdateBindsSetThenWhere ==
    (Done /\ call.op \in {"updateById", "updateWhere", "updateWhereAnd"}) =>
        /\ (dbInstance # NULL /\ ~HasInvalidName(call)) => Len(issued) = 1
        /\ \A s \in DOMAIN issued :
              LET sql == issued[s].sql
                  params == issued[s].params
                  set == SetColumns(sql)
                  where == WhereColumns(sql)
              IN  /\ Len(params) = PlaceholderCount(sql)
                  /\ Len(params) = Len(set) + Len(where)
                  /\ set = ObjectKeys(call.data)
                  /\ \A i \in DOMAIN set : params[i] = ValueOf(call.data, set[i])
                  /\ \A j \in DOMAIN where :
                        params[Len(set) + j] = PredicateValue(call, where[j])

\* An updateWhere whose where-value differs from its update-set value was issued
\* and changed a row.
C10_Witness ==
    /\ Done /\ call.op = "updateWhere" /\ Len(issued) = 1
    /\ Len(call.data) = 1 /\ call.data[1].v # call.whereValue
    /\ issued[1].params = <<call.data[1].v, call.whereValue>>
    /\ result.status = "ok" /\ result.value = IntV(1)
    /\ tables # before

----------------------------------------------------------------------------
(* C11 *)

\* the positions of log where insert(T, R) succeeded with an id and the next
\* call is findById(T, id)
RoundTrips ==
    { i \in 1..(Len(log) - 1) :
         /\ log[i].call.op = "insert" /\ log[i].result.status = "ok"
         /\ log[i + 1].call.op = "findById"
         /\ log[i + 1].call.table = log[i].call.table
         /\ log[i + 1].call.id = log[i].result.value }

\* findById found a row that holds the id and, for every field of R, want(value)
FoundWith(i, want(_)) ==
    LET R == log[i].call.data
        found == log[i + 1].result
    IN  /\ found.status = "ok"
        /\ found.value.t = "row"
        /\ found.value.v[IdCol] = log[i].result.value
        /\ \A j \in DOMAIN R : found.value.v[R[j].k] = want(R[j].v)

AsGiven(v) == v

\* what comes back for a value: numbers, strings and null as they were given,
\* true and false as 1 and 0
AsKept(v) == CASE v = BoolV(TRUE) -> IntV(1) [] v = BoolV(FALSE) -> IntV(0) [] OTHER -> v

----------------------------------------------------------------------------
(* C12 *)

UpdateOps == {"updateById", "updateWhere", "updateWhereAnd"}
DeleteOps == {"deleteById", "deleteWhere", "deleteWhereAnd"}

\* the predicate of a call as the caller gave it: the columns compared, each
\* with its value
PredicateOf(c) ==
    CASE c.op \in {"updateById", "deleteById", "findById"} -> <<[k |-> IdCol, v |-> c.id]>>
      [] c.op \in {"updateWhere", "deleteWhere", "findBy", "findOneBy"} ->
            <<[k |-> c.whereColumn, v |-> c.whereValue]>>
      [] c.op \in {"updateWhereAnd", "deleteWhereAnd", "findWhereAnd", "countWhereAnd"} ->
            c.conditions

\* the row has, in every column of the predicate, the value given for it
\* (the store's equality: null equals nothing)
RowSatisfies(row, predicate) ==
    \A j \in DOMAIN predicate :
       /\ predicate[j].k \in DOMAIN row
       /\ predicate[j].v # NullV
       /\ row[predicate[j].k] = predicate[j].v

\* the rows of the call's table, before the call, that its predicate selects
Hits(c) == { r \in before[c.table] : RowSatisfies(r, PredicateOf(c)) }

\* the database is initialized, the names are valid, the table and the columns
\* exist, and the update-set and the predicate name at least one column
WellFormedCall(c) ==
    /\ dbInstance # NULL
    /\ ~HasInvalidName(c)
    /\ c.table \in DOMAIN before
    /\ HasField(c, "data") =>
          /\ Len(c.data) > 0
          /\ Range(ObjectKeys(c.data)) \subseteq Schema[c.table]
    /\ Len(PredicateOf(c)) > 0
    /\ Range(ObjectKeys(PredicateOf(c))) \subseteq Schema[c.table]

\* C12: updateById and deleteById with an id that matches no row return 0, do
\* not raise and leave the tables as they were; every update* and delete*
\* that succeeds returns the number of rows its predicate selected, which are
\* the rows it rewrote or removed.
C12_CountOfRowsChanged ==
    /\ (Done /\ call.op \in {"updateById", "deleteById"} /\ WellFormedCall(call)
          /\ Hits(call) = {}) =>
          /\ result = [status |-> "ok", value |-> IntV(0)]
          /\ tables = before
    /\ (Done /\ call.op \in UpdateOps \cup DeleteOps /\ result.status = "ok") =>
          /\ result.value = IntV(Cardinality(Hits(call)))
          /\ before[call.table] \ Hits(call) \subseteq tables[call.table]
          /\ \A t \in DOMAIN before \ {call.table} : tables[t] = before[t]
          /\ IF call.op \in DeleteOps
             THEN tables[call.table] = before[call.table] \ Hits(call)
             ELSE Cardinality(tables[call.table]) = Cardinality(before[call.table])

\* updateById with an id no row has, on a table that has rows, returned 0.
C12_Witness ==
    /\ Done /\ call.op = "updateById" /\ WellFormedCall(call)
    /\ call.id = IntV(7) /\ before[call.table] # {}
    /\ result = [status |-> "ok", value |-> IntV(0)]

----------------------------------------------------------------------------
(* C13 *)

\* The rows of the table in the order the store returns them, from the one
\* after the first skip rows, at most n of them.
Page(rows, skip, n) ==
    LET all == SortById(rows)
        last == IF skip + n > Len(all) THEN Len(all) ELSE skip + n
    IN  SubSeq(all, skip + 1, last)

FoundRows(rows) == [status |-> "ok", value |-> [t |-> "rows", v |-> rows]]

C13_WitnessOffsetIgnored ==
    /\ Done /\ call.op = "findAll" /\ IsOk(result)
    /\ call.limit = Undefined /\ call.offset = IntV(1)
    /\ Len(result.value.v) = 2

----------------------------------------------------------------------------
(* C14 *)

\* C14: findById and findOneBy, on an initialized database and with valid
\* names of an existing table and column, do not raise: they return null when
\* no row matches and otherwise one row, which is a matching row.
C14_OneRowOrNull ==
    (Done /\ call.op \in {"findById", "findOneBy"} /\ WellFormedCall(call)) =>
       /\ IsOk(result)
       /\ IF Hits(call) = {}
          THEN result.value = NullV
          ELSE /\ result.value.t = "row"
               /\ result.value.v \in Hits(call)

\* findOneBy returned one row of the two that match.
C14_Witness ==
    /\ Done /\ call.op = "findOneBy" /\ WellFormedCall(call)
    /\ Cardinality(Hits(call)) = 2
    /\ IsOk(result) /\ result.value.t = "row"

\* findById returned null for an id no row of a non-empty table has.
C14_WitnessNull ==
    /\ Done /\ call.op = "findById" /\ WellFormedCall(call)
    /\ before[call.table] # {} /\ Hits(call) = {}
    /\ result = [status |-> "ok", value |-> NullV]

----------------------------------------------------------------------------
(* C15 *)

Counted(n) == [status |-> "ok", value |-> IntV(n)]

\* C15: on an existing table, count(table) returns the number of its rows,
\* count(table, col, v) with v defined the number of rows whose col equals v,
\* and countWhereAnd(table, conds) the number of rows that satisfy every
\* condition; the result is an integer, never negative, and 0 rather than an
\* error when nothing matches.
C15_CountsRows ==
    /\ (Done /\ call.op = "count" /\ dbInstance # NULL
          /\ WellFormedIdentifier(call.table) /\ call.table \in DOMAIN before) =>
          /\ (~call.column.given /\ call.whereValue = Undefined) =>
                result = Counted(Cardinality(before[call.table]))
          /\ (call.column.given /\ call.column.val \in Schema[call.table]
                /\ call.whereValue # Undefined) =>
                result = Counted(Cardinality({ r \in before[call.table] :
                            RowSatisfies(r, <<[k |-> call.column.val, v |-> call.whereValue]>>) }))
    /\ (Done /\ call.op = "countWhereAnd" /\ WellFormedCall(call)) =>
          result = Counted(Cardinality(Hits(call)))
    /\ (Done /\ call.op \in {"count", "countWhereAnd"} /\ IsOk(result)) =>
          /\ result.value.t = "int"
          /\ result.value.v >= 0

\* count(table, col, v) returned 1 on a table of two rows.
C15_Witness ==
    /\ Done /\ call.op = "count" /\ call.column.given /\ call.whereValue # Undefined
    /\ call.table \in DOMAIN before
    /\ Cardinality(before[call.table]) = 2
    /\ result = Counted(1)

\* countWhereAnd returned 0 on a table that has rows.
C15_WitnessZero ==
    /\ Done /\ call.op = "countWhereAnd" /\ WellFormedCall(call)
    /\ before[call.table] # {}
    /\ result = Counted(0)

----------------------------------------------------------------------------
(* C16 *)

WhereAndOps == {"updateWhereAnd", "deleteWhereAnd", "findWhereAnd", "countWhereAnd"}

\* the row with the update-set written over it, as the store keeps it
Rewritten(row, data) ==
    [col \in DOMAIN row |->
        IF col \in Range(ObjectKeys(data)) THEN Stored(ValueOf(data, col)) ELSE row[col]]

\* the row satisfies at least one condition and not all of them
SatisfiesOnlySome(row, conditions) ==
    /\ \E j \in DOMAIN conditions : RowSatisfies(row, <<conditions[j]>>)
    /\ ~RowSatisfies(row, conditions)

\* C16: updateWhereAnd, deleteWhereAnd, findWhereAnd and countWhereAnd with a
\* condition set that is not empty work on exactly the rows in which every
\* condition column has its condition value: these are the rows rewritten,
\* removed, returned or counted, and every other row, a row that satisfies
\* only some conditions included, stays as it was and is not returned.
C16_Conjunction ==
    (Done /\ call.op \in WhereAndOps /\ WellFormedCall(call)) =>
       LET T == call.table
           others == before[T] \ Hits(call)
       IN  /\ IsOk(result)
           /\ \A t \in DOMAIN before \ {T} : tables[t] = before[t]
           /\ CASE call.op = "updateWhereAnd" ->
                     /\ result.value = IntV(Cardinality(Hits(call)))
                     /\ tables[T] = others \cup { Rewritten(r, call.data) : r \in Hits(call) }
                [] call.op = "deleteWhereAnd" ->
                     /\ result.value = IntV(Cardinality(Hits(call)))
                     /\ tables[T] = others
                [] call.op = "findWhereAnd" ->
                     /\ Range(result.value.v) = Hits(call)
                     /\ Len(result.value.v) = Cardinality(Hits(call))
                     /\ tables[T] = before[T]
                [] call.op = "countWhereAnd" ->
                     /\ result.value = IntV(Cardinality(Hits(call)))
                     /\ tables[T] = before[T]

\* deleteWhereAnd with two conditions removed the row that satisfies both and
\* kept a row that satisfies one of them.
C16_Witness ==
    /\ Done /\ call.op = "deleteWhereAnd" /\ WellFormedCall(call)
    /\ Len(call.conditions) = 2
    /\ result = [status |-> "ok", value |-> IntV(1)]
    /\ \E r \in tables[call.table] : SatisfiesOnlySome(r, call.conditions)

----------------------------------------------------------------------------
(* C17 *)

\* the i-th call of the sequence was an insert into table t that succeeded
InsertedAt(i, t) ==
    /\ log[i].call.op = "insert"
    /\ log[i].call.table = t
    /\ IsOk(log[i].result)

\* the k-th call removed rows of table t, or cleared it
RemovedAt(k, t) ==
    /\ log[k].call.table = t
    /\ IsOk(log[k].result)
    /\ \/ log[k].call.op = "clearTable"
       \/ log[k].call.op = "deleteById" /\ log[k].result.value # IntV(0)

----------------------------------------------------------------------------
(* C18 *)

ReadOnlyOps ==
    {"findById", "findBy", "findOneBy", "findWhereAnd", "findAll", "count",
     "countWhereAnd", "tableExists"}

\* C18: the read-only operations never change the store: after the call the
\* tables are the same tables with the same rows as before it, whether the
\* call succeeded or failed.
C18_ReadOnlyKeepsStore ==
    (Done /\ call.op \in ReadOnlyOps) =>
       /\ DOMAIN tables = DOMAIN before
       /\ \A t \in DOMAIN before : tables[t] = before[t]

\* findBy returned rows of a table, and the table still has them.
C18_Witness ==
    /\ Done /\ call.op = "findBy" /\ IsOk(result)
    /\ Len(result.value.v) > 0
    /\ Range(result.value.v) \subseteq tables[call.table]

\* a read-only operation that the store rejected
C18_WitnessFailed ==
    /\ Done /\ call.op \in ReadOnlyOps /\ Len(issued) = 1 /\ ~IsOk(result)
    /\ before[N_users] # {}

----------------------------------------------------------------------------
(* C19 *)

\* the i-th call of the sequence was clearTable(t) and it succeeded
ClearedAt(i, t) ==
    /\ log[i].call.op = "clearTable"
    /\ log[i].call.table = t
    /\ IsOk(log[i].result)

\* C19: once clearTable(T) has succeeded, T has no row and is still a table,
\* and every other table has the rows it had before the call; count(T) called
\* next returns 0 and tableExists(T) called next returns true.
C19_ClearedTableIsEmpty ==
    \A t \in SeqTables :
       /\ (log # <<>> /\ ClearedAt(Len(log), t)) =>
             /\ t \in DOMAIN tables
             /\ tables[t] = {}
             /\ DOMAIN tables = DOMAIN before
             /\ \A other \in DOMAIN before \ {t} : tables[other] = before[other]
       /\ \A i \in DOMAIN log :
             (i < Len(log) /\ ClearedAt(i, t) /\ log[i + 1].call.table = t) =>
                /\ log[i + 1].call.op = "count" =>
                      log[i + 1].result = [status |-> "ok", value |-> IntV(0)]
                /\ log[i + 1].call.op = "tableExists" =>
                      log[i + 1].result = [status |-> "ok", value |-> BoolV(TRUE)]

\* After an insert into the other table, clearTable of a table that had a row
\* succeeded and count of the cleared table returned 0; the other table kept
\* its row.
C19_Witness ==
    /\ Len(log) = 3
    /\ InsertedAt(1, N_users)
    /\ ClearedAt(2, N_notes)
    /\ log[3].call.op = "count" /\ log[3].call.table = N_notes
    /\ log[3].result = [status |-> "ok", value |-> IntV(0)]
    /\ tables[N_users] # {}

\* clearTable succeeded and tableExists of the cleared table returned true.
C19_WitnessExists ==
    /\ Len(log) = 2
    /\ ClearedAt(1, N_notes)
    /\ log[2].call.op = "tableExists" /\ log[2].call.table = N_notes
    /\ log[2].result = [status |-> "ok", value |-> BoolV(TRUE)]

----------------------------------------------------------------------------
(* C20 *)

\* what the store answers to the statement the call issued, on the tables as
\* they were before the call
StoreOutcome == Exec(before, issued[1].sql, issued[1].params).outcome

\* C20: a call of an operation issues at most one statement; a call that
\* failed before reaching the store issued none; when the store rejects the
\* statement the call fails with the store's error, no other statement is
\* issued and the tables are as before.
C20_OneStatementNoRetry ==
    Done =>
       /\ Len(issued) <= 1
       /\ Len(issued) = 0 => (~IsOk(result) /\ tables = before)
       /\ (Len(issued) = 1 /\ ~IsOk(StoreOutcome)) =>
             /\ result = StoreOutcome
             /\ result.error = "StoreError"
             /\ tables = before
       /\ (Len(issued) = 1 /\ IsOk(StoreOutcome)) => IsOk(result)

\* An insert with valid names was rejected by the store, which has no such
\* table: one statement was issued and the call failed with that error.
C20_Witness ==
    /\ Done /\ call.op = "insert" /\ ~HasInvalidName(call)
    /\ Len(issued) = 1
    /\ result = StoreError("no such table")

----------------------------------------------------------------------------
(* C21 *)

\* the fixed pieces of text of the statement templates
TemplateText ==
    {"INSERT INTO ", " (", ", ", ") VALUES (", "?", ")", "UPDATE ", " SET ", " = ?",
     " WHERE ", " AND ", "DELETE FROM ", "SELECT * FROM ", " LIMIT 1", " LIMIT ?",
     " OFFSET ?", "SELECT COUNT(*) as count FROM ",
     "SELECT COUNT(*) as count FROM sqlite_master WHERE type='table' AND name=?"}

IsTemplateText(tok) == DOMAIN tok = {"kw"} /\ tok.kw \in TemplateText

\* the names the statement of the call is built from: the table, the columns
\* supplied, and the column id of the *ById operations
NamesUsed(c) ==
    CASE c.op = "tableExists" -> {}
      [] c.op = "count" ->
            {c.table} \cup (IF K(" WHERE ") \in Range(issued[1].sql)
                            THEN {c.column.val} ELSE {})
      [] c.op \in {"updateById", "deleteById", "findById"} -> SuppliedNames(c) \cup {IdCol}
      [] OTHER -> SuppliedNames(c)

\* C21: in the statement text of every builder operation, every piece is
\* either fixed template text or a name wrapped in double quotes, and the
\* names in double quotes are the table and column names the caller supplied
\* (and the column id for the *ById operations): no supplied name is in the
\* text unquoted.  tableExists has no name in its text and binds the table
\* name as a value.
C21_NamesAreQuoted ==
    (Done /\ call.op \notin {"none", "executeQuery"} /\ Len(issued) = 1) =>
       LET sql == issued[1].sql
       IN  /\ \A i \in DOMAIN sql : IsQ(sql[i]) \/ IsTemplateText(sql[i])
           /\ Range(QuotedNames(sql)) = NamesUsed(call)
           /\ call.op = "tableExists" => issued[1].params = <<NameV(call.table)>>

\* deleteWhere issued a statement with the table and the column in quotes.
C21_Witness ==
    /\ Done /\ call.op = "deleteWhere" /\ Len(issued) = 1
    /\ QuotedNames(issued[1].sql) = <<call.table, call.whereColumn>>
    /\ call.table # call.whereColumn

----------------------------------------------------------------------------
(* C23 *)

\* C23: getDatabase returns a handle only when initialization has fully
\* succeeded: the handle it returns, and the handle an initDatabase call
\* resolves with, is a handle whose pragma step has completed; while an
\* initDatabase call awaits the open or the pragma, and after the pragma has
\* failed, getDatabase throws.
C23_HandleOnlyAfterPragma ==
    /\ (call.op = "getDatabase" /\ IsOk(result)) => result.value \in window.ready
    /\ \A c \in Callers :
          (/\ tasks[c].op = "initDatabase" /\ tasks[c].pc = "settled"
           /\ tasks[c].outcome.status = "resolved") =>
             tasks[c].outcome.value \in window.ready

----------------------------------------------------------------------------
(* C24 *)

\* C24: updateWhereAnd, deleteWhereAnd, findWhereAnd and countWhereAnd called
\* with an empty condition set never act on the whole table: the call fails,
\* no row is rewritten or removed, and the statement, when one is issued,
\* ends with an empty WHERE predicate, which the store rejects.
C24_EmptyConditionsRejected ==
    (Done /\ call.op \in WhereAndOps /\ call.conditions = <<>>) =>
       /\ ~IsOk(result)
       /\ tables = before
       /\ Len(issued) = 1 =>
             /\ issued[1].sql[Len(issued[1].sql)] = K(" WHERE ")
             /\ result = StoreError("syntax error")

\* deleteWhereAnd with no condition on a table that has rows: the statement
\* was issued and rejected, and the rows are still there.
C24_Witness ==
    /\ Done /\ call.op = "deleteWhereAnd" /\ call.conditions = <<>>
    /\ Len(issued) = 1
    /\ result = StoreError("syntax error")
    /\ call.table \in DOMAIN tables
    /\ tables[call.table] # {} /\ tables = before

----------------------------------------------------------------------------
(* C25 *)

\* C25: count(table, whereColumn, whereValue) validates whereColumn and
\* filters by it whenever whereColumn is supplied: with an invalid whereColumn
\* the call fails with an identifier error, and with a valid one it returns
\* the total of the table only when every row matches, also when whereValue
\* is undefined.
C25_CountFiltersWhenColumnGiven ==
    (/\ Done /\ call.op = "count" /\ call.column.given
     /\ dbInstance # NULL /\ WellFormedIdentifier(call.table)) =>
       IF ~WellFormedIdentifier(call.column.val)
       THEN /\ result.status = "error"
            /\ result.error \in {"InvalidName", "ReservedKeyword"}
       ELSE (IsOk(result) /\ result.value = IntV(Cardinality(before[call.table]))) =>
               \A r \in before[call.table] :
                  RowSatisfies(r, <<[k |-> call.column.val, v |-> call.whereValue]>>)

----------------------------------------------------------------------------
(* C26 *)

\* C26: insert and update* called with a record of no columns write nothing
\* and fail: no row is inserted or changed, and the call does not report
\* success.
C26_EmptyRecordFails ==
    (Done /\ call.op \in {"insert"} \cup UpdateOps /\ call.data = <<>>) =>
       /\ ~IsOk(result)
       /\ tables = before

\* updateById with the empty record and the id of a row that exists: the
\* statement was issued and rejected, and the row is as it was.
C26_Witness ==
    /\ Done /\ call.op = "updateById" /\ call.data = <<>>
    /\ Len(issued) = 1 /\ result = StoreError("syntax error")
    /\ call.table \in DOMAIN before
    /\ \E r \in before[call.table] : r[IdCol] = call.id
    /\ tables = before

\* insert with the empty record on an initialized database and an existing
\* table: the statement was issued and rejected.
C26_WitnessInsert ==
    /\ Done /\ call.op = "insert" /\ call.data = <<>>
    /\ Len(issued) = 1 /\ result = StoreError("syntax error")
    /\ call.table \in DOMAIN before
    /\ tables = before

----------------------------------------------------------------------------
(* C22 *)
\* C22: subscription store.  When a run of initialize() that did the
\* initialization finishes, with RevenueCat's success or with its failure,
\* isInitialized is true and isLoading is false; isInitialized never goes
\* back to false; and a call of initialize() made while isInitialized is
\* true returns at once, leaves the store alone, does not call RevenueCat and
\* registers no customer-info listener.
InitializeFinishes(c) ==
    /\ tasks[c].op = "initialize"
    /\ tasks[c].pc # "settled"
    /\ tasks'[c].pc = "settled"

LaterInitialize ==
    /\ sub.isInitialized
    /\ call' # call
    /\ call'.op = "initialize"

C22_InitializeOnce ==
    [][ /\ \A c \in Callers :
              InitializeFinishes(c) => (sub'.isInitialized /\ ~sub'.isLoading)
        /\ sub.isInitialized => sub'.isInitialized
        /\ LaterInitialize =>
              /\ rc' = rc
              /\ sub' = sub
              /\ \A c \in Callers : tasks'[c].pc = "settled" \/ tasks'[c] = tasks[c] ]_vars

\* Witness: two calls of initialize() and nothing else; the first failed in
\* Purchases.configure, the second returned without configuring.
C22_Witness ==
    /\ ops = 2
    /\ call = [op |-> "initialize", n |-> 2]
    /\ \A c \in Callers : tasks[c] = Resolved("initialize", Undefined)
    /\ sub.isInitialized /\ ~sub.isLoading /\ sub.error = TextV("E")
    /\ rc = [isInitialized |-> FALSE, configures |-> 1, listeners |-> 0]

----------------------------------------------------------------------------
(* C27 *)
\* C27: subscription store.  In every reachable state, isPremium = false
\* implies currentPlan = 'free'.
C27_NotPremiumIsFree == ~sub.isPremium => sub.currentPlan = "free"

\* Witness: the user bought a subscription and then logged out; the anonymous
\* customer has no entitlement and the plan is 'free' again.
C27_Witness ==
    /\ ops = 2
    /\ call.op = "logOutUser"
    /\ tasks["c1"] = Resolved("purchasePackage", BoolV(TRUE))
    /\ tasks["c2"] = Resolved("logOutUser", Undefined)
    /\ sub.customerInfo = NotEntitled
    /\ ~sub.isPremium /\ sub.currentPlan = "free"

----------------------------------------------------------------------------
(* C28 *)
\* C28: auth store.  isLoading is true whenever one of signUp, signIn,
\* signInWithOAuth, signOut, resetPassword, updatePassword and updateProfile
\* is in flight, however the actions overlap; and once every started action
\* has settled, isLoading is false.
InFlight(c) == tasks[c].op \in AuthActions /\ tasks[c].pc # "settled"

C28_LoadingWhileInFlight ==
    /\ (\E c \in Callers : InFlight(c)) => auth.isLoading
    /\ (\A c \in Callers : tasks[c].pc = "settled") => ~auth.isLoading

----------------------------------------------------------------------------
(* C29 *)
\* C29: auth store.  Over any sequence and interleaving of initialize()
\* calls, two calls started before the first has finished included, the
\* auth-state-change listener is registered at most once and
\* setupAutoRefresh is invoked at most once.
C29_ListenerAndRefreshOnce ==
    /\ supa.listeners <= 1
    /\ supa.setups <= 1

====
